---- MODULE Spec2Model ----
(***************************************************************************)
(* Verification model of the adventure-harmony-server Python worker:       *)
(*   - A2AWorker history reconstruction, pairing validation and            *)
(*     token-budget eviction            (src/python_worker_a2a.py)         *)
(*   - A2AMessageProcessor.process_message_with_claude, the bounded tool   *)
(*     loop, and handle_a2a_request     (src/python_worker_a2a.py)         *)
(*   - MCPStreamableClient.connect, the handshake with bounded retry       *)
(*                                      (src/src/agents/                   *)
(*                                       mcp_streamable_client.py)         *)
(*   - the life cycle of the three MCP clients (connect, call_tool, close) *)
(*   - the parsing of MCP responses, as token sequences and as decoded     *)
(*     JSON-RPC payloads, and the profile id of a tools/call request       *)
(*                                      (src/src/agents/agno_mcp_*.py)     *)
(*   - AgnoWorker job processing        (src/python_worker_agno.py)        *)
(* Each subsystem has its own specification over a shared set of           *)
(* variables; the variables of the other subsystems stay at their idle     *)
(* values.                                                                 *)
(***************************************************************************)
EXTENDS Integers, Sequences, FiniteSets, Bags, TLC

VARIABLES
    \* ---- history reconstruction (A2AWorker) ----
    messages,           \* the ordered stored rows handed to build_conversation_history_with_tools
    claude_messages,    \* a turn sequence: the built history, or an arbitrary input sequence
    validated,          \* validate_tool_use_results(claude_messages)
    validated_twice,    \* validate_tool_use_results(validated)
    filtered_messages,  \* filter_messages_by_tokens(claude_messages, max_tokens)
    max_tokens,         \* the budget of the last filter call
    hpc                 \* position of the history pipeline

    \* ---- tool loop (A2AMessageProcessor.process_message_with_claude) ----
VARIABLES
    mcp_client,         \* TRUE iff self.mcp_client is an MCPClient (MCP_AVAILABLE), else None
    mcp_tools,          \* the names registered in self.mcp_tools
    llm_messages,       \* the local list "messages" sent to the model
    tool_iterations,    \* the counter tool_iterations
    response,           \* response.content of the last model call that returned
    model_calls,        \* one record per anthropic.messages.create call issued
    batches,            \* number of tool batches executed
    result_text,        \* result["text"]
    outcome,            \* "none" while running, then "text" (result) or "error"
    agent,              \* the class whose object is followed
    mcp_connected,      \* self.mcp_client.connected
    init_result,        \* how the connect made by initialize went
    provider_calls,     \* requests sent to the provider by tool calls
    last_exec,          \* what the tools of the last batch met
    model_failed,       \* TRUE once a model call has raised
    msg_status,         \* conversation_messages.status of the message
    reply_stored,       \* TRUE iff the reply row was inserted
    a2a_response,       \* what handle_a2a_request made of the last other request
    lpc                 \* "new", "Ready", "Asking", "Executing", "Final", "Done",
                        \* "Stored" or "Answered"

    \* ---- the MCP clients ----
VARIABLES
    client_class,       \* the class of the client object
    connected,          \* self.connected (HTTPMCPTools: self._initialized)
    session_id,         \* self.session_id ("" is None)
    tools,              \* self.tools (HTTPMCPTools: self.functions), as the sequence of names
    retry_count,        \* argument of connect
    retry_delay,        \* argument of connect
    attempt,            \* the loop variable of "for attempt in range(retry_count)"
    attempts_made,      \* number of attempts started
    sleep_log,          \* the delays slept, in order
    failures,           \* the failure of each failed attempt, in order
    conn_outcome,       \* "none", "returned", "ConnectionError" or "Exception"
    cpc,                \* position inside connect, then "closed" after close
    http_client,        \* self._http_client: "none", "open" or "closed"
    observed,           \* the session id the responses have carried so far, in any header
    last_sent,          \* the last message put on the wire
    attempt_log,        \* the steps of the running connect attempt
    last_call,          \* the requests sent and the reply of the last call_tool
    closed_states       \* the client state each close() left

    \* ---- response parsing (HTTPMCPTools, MCPHTTPClient) ----
VARIABLES
    body,               \* response.text, as a sequence of tokens
    content_type,       \* the Content-Type header of the response
    parsed,             \* what each _parse_response makes of the response
    framed,             \* what each makes of the same text sent as an SSE event
    rpc_payload,        \* the decoded JSON-RPC payload of a response, by its fields
    request_outcome,    \* how _send_request ends on the payload, per encoding
    call_outcome,       \* how _call_tool / call_tool ends on the payload
    call_request,       \* the profile ids the last tools/call request carried
    ppc                 \* "idle", "body", "parsed", "framed", "payload" or "request"

    \* ---- AgnoWorker._process_job ----
VARIABLES
    job,                \* the index of the job _process_job is called with
    job_status,         \* conversation_jobs.status, per job
    job_tools,          \* agent.mcp_tools.functions of the agent created for the job
    job_error,          \* conversation_jobs.error, per job
    job_reply,          \* the status of the outgoing message row, per job
    jpc                 \* position inside _process_job

histVars == <<messages, claude_messages, validated, validated_twice,
              filtered_messages, max_tokens, hpc>>

loopVars == <<mcp_client, mcp_tools, llm_messages, tool_iterations, response,
              model_calls, batches, result_text, outcome, agent, mcp_connected,
              init_result, provider_calls, last_exec, model_failed, msg_status,
              reply_stored, a2a_response, lpc>>

connVars == <<client_class, connected, session_id, tools, retry_count, retry_delay,
              attempt, attempts_made, sleep_log, failures, conn_outcome, cpc, http_client,
              observed, last_sent, attempt_log, last_call, closed_states>>

parseVars == <<body, content_type, parsed, framed, rpc_payload, request_outcome, call_outcome,
               call_request, ppc>>

jobVars == <<job, job_status, job_tools, job_error, job_reply, jpc>>

vars == <<histVars, loopVars, connVars, parseVars, jobVars>>

(***************************************************************************)
(* Bounds of the model.                                                    *)
(***************************************************************************)
MaxRows == 3        \* longest stored row log
MaxTurns == 3       \* longest arbitrary turn sequence
MaxBudgetSteps == 4 \* budgets tried are 0, BudgetStep, ..., MaxBudgetSteps * BudgetStep
BudgetStep == 6     \* distance between two budgets tried
MaxToolUses == 5    \* most tool_use blocks the model emits in one run
MaxToolFailures == 1 \* most tool executions that fail in one run
MaxRetryCount == 3  \* largest retry_count passed to connect
MaxRetryDelay == 2  \* largest retry_delay passed to connect
MaxCloses == 2      \* most close() calls on one client
MaxBodyLen == 5     \* longest response text, in tokens
MaxJobs == 3        \* most pending jobs one process_pending_jobs call finds

(***************************************************************************)
(* Data: stored rows, blocks and turns.                                    *)
(* A value that Python leaves absent (or None) is the empty string here;   *)
(* every test the code makes on such a value is a truthiness test.         *)
(***************************************************************************)
Row(direction, content, tool_calls, tool_result_for) ==
    [direction |-> direction, content |-> content,
     tool_calls |-> tool_calls, tool_result_for |-> tool_result_for]

ToolCall(id, name) == [id |-> id, name |-> name]

TextBlock(text) ==
    [type |-> "text", text |-> text, id |-> "", name |-> "",
     tool_use_id |-> "", content |-> ""]

ToolUseBlock(id, name) ==
    [type |-> "tool_use", text |-> "", id |-> id, name |-> name,
     tool_use_id |-> "", content |-> ""]

ToolResultBlock(tool_use_id, content) ==
    [type |-> "tool_result", text |-> "", id |-> "", name |-> "",
     tool_use_id |-> tool_use_id, content |-> content]

\* {"role": role, "content": "<string>"}
TextTurn(role, content) ==
    [role |-> role, isList |-> FALSE, text |-> content, blocks |-> <<>>]

\* {"role": role, "content": [blocks]}
ListTurn(role, blocks) ==
    [role |-> role, isList |-> TRUE, text |-> "", blocks |-> blocks]

\* json.dumps({"status": "success", "message": "Tool executed successfully"})
SyntheticBuilt == "{\"status\": \"success\", \"message\": \"Tool executed successfully\"}"

\* json.dumps({"status": "success", "message": "Tool completed"})
SyntheticValidated == "{\"status\": \"success\", \"message\": \"Tool completed\"}"

\* not content or (isinstance(content, str) and not content.strip())
IsBlank(content) == content \in {"", " "}

(***************************************************************************)
(* Sequence helpers.                                                       *)
(***************************************************************************)
Range(s) == {s[k] : k \in 1..Len(s)}

RECURSIVE SumLen(_)
SumLen(s) == IF s = <<>> THEN 0 ELSE Head(s) + SumLen(Tail(s))

IsSuffix(t, s) ==
    /\ Len(t) <= Len(s)
    /\ t = SubSeq(s, Len(s) - Len(t) + 1, Len(s))

(***************************************************************************)
(* A2AWorker.validate_tool_use_results                                     *)
(***************************************************************************)
\* msg is an assistant message whose content is a list holding a tool_use block
HasToolUse(msg) ==
    /\ msg.role = "assistant"
    /\ msg.isList
    /\ \E k \in 1..Len(msg.blocks) : msg.blocks[k].type = "tool_use"

\* [block["id"] for block in content if type == "tool_use" and block.get("id")]
ToolUseIds(msg) ==
    LET used == SelectSeq(msg.blocks, LAMBDA b : b.type = "tool_use" /\ b.id # "")
    IN  [k \in 1..Len(used) |-> used[k].id]

\* [block.get("tool_use_id") for block in content if type == "tool_result"]
ResultIds(msg) ==
    LET res == SelectSeq(msg.blocks, LAMBDA b : b.type = "tool_result")
    IN  [k \in 1..Len(res) |-> res[k].tool_use_id]

\* has_next computed one message short: the last message is never looked at
HasToolResults_OffByOne(msgs, i) ==
    /\ i + 2 <= Len(msgs)
    /\ msgs[i + 1].role = "user"
    /\ msgs[i + 1].isList
    /\ \A tid \in Range(ToolUseIds(msgs[i])) : tid \in Range(ResultIds(msgs[i + 1]))

\* any() instead of all(): one result of the batch is enough
HasToolResults_Any(msgs, i) ==
    /\ i + 1 <= Len(msgs)
    /\ msgs[i + 1].role = "user"
    /\ msgs[i + 1].isList
    /\ \E tid \in Range(ToolUseIds(msgs[i])) : tid \in Range(ResultIds(msgs[i + 1]))

\* has_tool_results, for the message at index i of msgs
HasToolResults(msgs, i) ==
    /\ i + 1 <= Len(msgs)
    /\ msgs[i + 1].role = "user"
    /\ msgs[i + 1].isList
    /\ \A tid \in Range(ToolUseIds(msgs[i])) : tid \in Range(ResultIds(msgs[i + 1]))

SyntheticResults(tool_use_ids) ==
    ListTurn("user", [k \in 1..Len(tool_use_ids) |->
                         ToolResultBlock(tool_use_ids[k], SyntheticValidated)])

\* the index the loop continues at after inserting synthetic results behind msgs[i]
SkipAfterSynthetic(msgs, i) ==
    IF i + 1 <= Len(msgs) /\ msgs[i + 1].role = "user" THEN i + 2 ELSE i + 1

RECURSIVE ValidateFrom(_, _)
ValidateFrom(msgs, i) ==
    IF i > Len(msgs) THEN <<>>
    ELSE IF HasToolUse(msgs[i]) /\ ~HasToolResults(msgs, i)
         THEN <<msgs[i], SyntheticResults(ToolUseIds(msgs[i]))>>
                  \o ValidateFrom(msgs, SkipAfterSynthetic(msgs, i))
         ELSE <<msgs[i]>> \o ValidateFrom(msgs, i + 1)

validate_tool_use_results(msgs) == ValidateFrom(msgs, 1)

(***************************************************************************)
(* A2AWorker.build_conversation_history_with_tools                         *)
(***************************************************************************)
\* no row is skipped for its content
SkipEmptyContent_Never(msg) == FALSE

\* the row is skipped before anything else is looked at
SkipEmptyContent(msg) == IsBlank(msg.content)

\* msg.get("tool_calls") and isinstance(list) and len > 0
HasToolCalls(msg) == Len(msg.tool_calls) > 0

\* the tool calls that carry both an id and a name
WellFormedCalls(msg) ==
    SelectSeq(msg.tool_calls, LAMBDA c : c.id # "" /\ c.name # "")

\* the assistant message emitted for a row with tool calls
ToolUseTurn(msg) ==
    LET text_content == IF ~IsBlank(msg.content) THEN msg.content ELSE "Using tools"
        calls == WellFormedCalls(msg)
    IN  ListTurn("assistant",
                 <<TextBlock(text_content)>>
                     \o [k \in 1..Len(calls) |-> ToolUseBlock(calls[k].id, calls[k].name)])

\* the scan does not stop at a row that is no result row: it runs to the end
ScanResults_NoBreak(msgs, from) == Len(msgs) + 1

RECURSIVE ScanResults(_, _)
\* the first index j >= from whose row carries no tool_result_for (Len+1 if none)
ScanResults(msgs, from) ==
    IF from > Len(msgs) THEN from
    ELSE IF msgs[from].tool_result_for # "" THEN ScanResults(msgs, from + 1)
         ELSE from

\* the user message emitted behind the assistant message of row i; j is ScanResults
ToolResultTurn(msgs, i, j) ==
    LET found == [k \in 1..(j - i - 1) |->
                     ToolResultBlock(msgs[i + k].tool_result_for, msgs[i + k].content)]
        calls == WellFormedCalls(msgs[i])
        synthetic == [k \in 1..Len(calls) |-> ToolResultBlock(calls[k].id, SyntheticBuilt)]
    IN  ListTurn("user", IF found = <<>> THEN synthetic ELSE found)

RECURSIVE BuildFrom(_, _)
BuildFrom(msgs, i) ==
    IF i > Len(msgs) THEN <<>>
    ELSE LET msg == msgs[i] IN
         IF SkipEmptyContent(msg) THEN BuildFrom(msgs, i + 1)
         ELSE IF HasToolCalls(msg)
              THEN LET j == ScanResults(msgs, i + 1)
                   IN  <<ToolUseTurn(msg), ToolResultTurn(msgs, i, j)>>
                           \o BuildFrom(msgs, IF j > i + 1 THEN j ELSE i + 1)
              ELSE IF msg.tool_result_for # "" THEN BuildFrom(msgs, i + 1)
                   ELSE <<TextTurn(IF msg.direction = "incoming" THEN "user" ELSE "assistant",
                                   msg.content)>>
                            \o BuildFrom(msgs, i + 1)

build_conversation_history_with_tools(msgs) ==
    validate_tool_use_results(BuildFrom(msgs, 1))

(***************************************************************************)
(* A2AWorker.estimate_token_count and filter_messages_by_tokens            *)
(***************************************************************************)
\* the characters of every string value of a block
BlockChars(b) ==
    Len(b.type) + Len(b.text) + Len(b.id) + Len(b.name)
        + Len(b.tool_use_id) + Len(b.content)

MessageChars(msg) ==
    Len(msg.role)
        + (IF msg.isList
           THEN SumLen([k \in 1..Len(msg.blocks) |-> BlockChars(msg.blocks[k])])
           ELSE Len(msg.text))

estimate_token_count(msgs) ==
    SumLen([k \in 1..Len(msgs) |-> MessageChars(msgs[k])]) \div 4

RECURSIVE ReduceFromEnd(_, _)
\* drops the newest message instead of the oldest: filtered = filtered[:-1]
ReduceFromEnd(filtered, budget) ==
    IF Len(filtered) > 0 /\ estimate_token_count(filtered) > budget
    THEN ReduceFromEnd(SubSeq(filtered, 1, Len(filtered) - 1), budget)
    ELSE filtered

RECURSIVE ReduceKeepLast(_, _)
\* stops at the last message: while len(filtered) > 1
ReduceKeepLast(filtered, budget) ==
    IF Len(filtered) > 1 /\ estimate_token_count(filtered) > budget
    THEN ReduceKeepLast(Tail(filtered), budget)
    ELSE filtered

RECURSIVE ReduceFromBeginning_Strict(_, _)
\* the test is strict: if token_count < max_tokens: break
ReduceFromBeginning_Strict(filtered, budget) ==
    IF Len(filtered) > 0 /\ estimate_token_count(filtered) >= budget
    THEN ReduceFromBeginning_Strict(Tail(filtered), budget)
    ELSE filtered

RECURSIVE ReduceFromBothEnds(_, _)
\* drops the oldest and the newest message: filtered = filtered[1:-1]
ReduceFromBothEnds(filtered, budget) ==
    IF Len(filtered) > 0 /\ estimate_token_count(filtered) > budget
    THEN ReduceFromBothEnds(SubSeq(filtered, 2, Len(filtered) - 1), budget)
    ELSE filtered

\* the loop "while len(filtered) > 0: if count <= max: break; filtered = filtered[1:]"
RECURSIVE ReduceFromBeginning(_, _)
ReduceFromBeginning(filtered, budget) ==
    IF Len(filtered) > 0 /\ estimate_token_count(filtered) > budget
    THEN ReduceFromBeginning(Tail(filtered), budget)
    ELSE filtered

filter_messages_by_tokens(msgs, budget) ==
    IF msgs = <<>> THEN msgs ELSE ReduceFromBeginning(msgs, budget)

(***************************************************************************)
(* Inputs of the history pipeline.                                         *)
(***************************************************************************)
Ids == {"c1", "c2"}

\* the id sequences without repetition over Ids, of length 0, 1 and 2
IdSeqs ==
    {<<>>} \cup {<<a>> : a \in Ids}
           \cup {pair \in {<<a, b>> : a, b \in Ids} : pair[1] # pair[2]}

\* stored rows: plain rows, blank rows, tool-call rows (one of them with blank
\* content, one with a malformed call), result rows for c1, c2 and the unrelated c3
RowSet ==
    { Row("incoming", "hi", <<>>, ""),
      Row("outgoing", "ok", <<>>, ""),
      Row("incoming", " ", <<>>, ""),
      Row("outgoing", "calling", <<ToolCall("c1", "search")>>, ""),
      Row("outgoing", "calling", <<ToolCall("c1", "search"), ToolCall("c2", "book")>>, ""),
      Row("outgoing", "", <<ToolCall("c1", "search")>>, ""),
      Row("outgoing", "calling", <<ToolCall("", "search"), ToolCall("c2", "book")>>, ""),
      Row("incoming", "r1", <<>>, "c1"),
      Row("incoming", "r2", <<>>, "c2"),
      Row("incoming", "r3", <<>>, "c3"),
      Row("incoming", "", <<>>, "c1") }

UseBlocks(ids) == [k \in 1..Len(ids) |-> ToolUseBlock(ids[k], "search")]
ResultBlocks(ids) == [k \in 1..Len(ids) |-> ToolResultBlock(ids[k], "r")]

\* arbitrary turns: plain turns, assistant turns with tool_use blocks (one whose
\* tool_use block has no id), user turns of tool_result blocks
TurnSet ==
    { TextTurn("user", "hi"), TextTurn("assistant", "ok") }
    \cup { ListTurn("assistant", <<TextBlock("Using tools")>> \o UseBlocks(ids)) : ids \in IdSeqs }
    \cup { ListTurn("assistant", <<ToolUseBlock("", "search")>>) }
    \cup { ListTurn("user", ResultBlocks(ids)) : ids \in IdSeqs }

\* def filter_messages_by_tokens(self, messages, max_tokens: int = 40000)
DefaultMaxTokens == 40000

Budgets == {k * BudgetStep : k \in 0..MaxBudgetSteps}

LoopIdle ==
    /\ mcp_client = FALSE
    /\ mcp_tools = {}
    /\ llm_messages = <<>>
    /\ tool_iterations = 0
    /\ response = <<>>
    /\ model_calls = <<>>
    /\ batches = 0
    /\ result_text = ""
    /\ outcome = "none"
    /\ agent = "none"
    /\ mcp_connected = FALSE
    /\ init_result = "none"
    /\ provider_calls = 0
    /\ last_exec = [db |-> "unused", reply |-> "none"]
    /\ model_failed = FALSE
    /\ msg_status = "pending"
    /\ reply_stored = FALSE
    /\ a2a_response = <<>>
    /\ lpc = "idle"

ConnIdle ==
    /\ client_class = "none"
    /\ connected = FALSE
    /\ session_id = ""
    /\ tools = <<>>
    /\ retry_count = 0
    /\ retry_delay = 0
    /\ attempt = 0
    /\ attempts_made = 0
    /\ sleep_log = <<>>
    /\ failures = <<>>
    /\ conn_outcome = "none"
    /\ cpc = "idle"
    /\ http_client = "none"
    /\ observed = ""
    /\ last_sent = [method |-> "", session |-> "", expected |-> ""]
    /\ attempt_log = <<>>
    /\ last_call = [sent |-> 0, reply |-> "none"]
    /\ closed_states = <<>>

ParseIdle ==
    /\ body = <<>>
    /\ content_type = ""
    /\ parsed = <<>>
    /\ framed = <<>>
    /\ rpc_payload = <<>>
    /\ request_outcome = <<>>
    /\ call_outcome = <<>>
    /\ call_request = <<>>
    /\ ppc = "idle"

JobIdle ==
    /\ job = 0
    /\ job_status = <<>>
    /\ job_tools = <<>>
    /\ job_error = <<>>
    /\ job_reply = <<>>
    /\ jpc = "idle"

HistIdle ==
    /\ messages = <<>>
    /\ claude_messages = <<>>
    /\ validated = <<>>
    /\ validated_twice = <<>>
    /\ filtered_messages = <<>>
    /\ max_tokens = 0
    /\ hpc = "idle"

(***************************************************************************)
(* SpecHistory: get_conversation_history_by_phone on a stored row log:     *)
(* build (with the validation pass), then token-budget eviction.           *)
(***************************************************************************)
InitHistory ==
    /\ messages = <<>>
    /\ claude_messages = <<>>
    /\ validated = <<>>
    /\ validated_twice = <<>>
    /\ filtered_messages = <<>>
    /\ max_tokens = 0
    /\ hpc = "rows"
    /\ LoopIdle
    /\ ConnIdle
    /\ ParseIdle
    /\ JobIdle

\* the message store hands over one more row of the ordered slice
StoreRow(row) ==
    /\ hpc = "rows"
    /\ Len(messages) < MaxRows
    /\ messages' = Append(messages, row)
    /\ UNCHANGED <<claude_messages, validated, validated_twice,
                   filtered_messages, max_tokens, hpc>>
    /\ UNCHANGED <<loopVars, connVars, parseVars, jobVars>>

\* claude_messages = self.build_conversation_history_with_tools(messages)
BuildHistory ==
    /\ hpc = "rows"
    /\ claude_messages' = build_conversation_history_with_tools(messages)
    /\ hpc' = "built"
    /\ UNCHANGED <<messages, validated, validated_twice, filtered_messages, max_tokens>>
    /\ UNCHANGED <<loopVars, connVars, parseVars, jobVars>>

\* return self.filter_messages_by_tokens(claude_messages)
FilterHistory(budget) ==
    /\ hpc = "built"
    /\ filtered_messages' = filter_messages_by_tokens(claude_messages, budget)
    /\ max_tokens' = budget
    /\ hpc' = "filtered"
    /\ UNCHANGED <<messages, claude_messages, validated, validated_twice>>
    /\ UNCHANGED <<loopVars, connVars, parseVars, jobVars>>

NextHistory ==
    \/ \E row \in RowSet : StoreRow(row)
    \/ BuildHistory
    \/ \E budget \in Budgets \cup {DefaultMaxTokens} : FilterHistory(budget)

SpecHistory == InitHistory /\ [][NextHistory]_vars

(***************************************************************************)
(* SpecTurns: validate_tool_use_results and filter_messages_by_tokens on   *)
(* arbitrary turn sequences.                                               *)
(***************************************************************************)
InitTurns ==
    /\ messages = <<>>
    /\ claude_messages = <<>>
    /\ validated = <<>>
    /\ validated_twice = <<>>
    /\ filtered_messages = <<>>
    /\ max_tokens = 0
    /\ hpc = "turns"
    /\ LoopIdle
    /\ ConnIdle
    /\ ParseIdle
    /\ JobIdle

\* the caller's sequence grows by one turn
AddTurn(turn) ==
    /\ hpc = "turns"
    /\ Len(claude_messages) < MaxTurns
    /\ claude_messages' = Append(claude_messages, turn)
    /\ UNCHANGED <<messages, validated, validated_twice, filtered_messages, max_tokens, hpc>>
    /\ UNCHANGED <<loopVars, connVars, parseVars, jobVars>>

ValidatePass ==
    /\ hpc = "turns"
    /\ validated' = validate_tool_use_results(claude_messages)
    /\ hpc' = "validated"
    /\ UNCHANGED <<messages, claude_messages, validated_twice, filtered_messages, max_tokens>>
    /\ UNCHANGED <<loopVars, connVars, parseVars, jobVars>>

ValidateAgain ==
    /\ hpc = "validated"
    /\ validated_twice' = validate_tool_use_results(validated)
    /\ hpc' = "validated_twice"
    /\ UNCHANGED <<messages, claude_messages, validated, filtered_messages, max_tokens>>
    /\ UNCHANGED <<loopVars, connVars, parseVars, jobVars>>

FilterPass(budget) ==
    /\ hpc = "turns"
    /\ filtered_messages' = filter_messages_by_tokens(claude_messages, budget)
    /\ max_tokens' = budget
    /\ hpc' = "filtered"
    /\ UNCHANGED <<messages, claude_messages, validated, validated_twice>>
    /\ UNCHANGED <<loopVars, connVars, parseVars, jobVars>>

NextTurns ==
    \/ \E turn \in TurnSet : AddTurn(turn)
    \/ ValidatePass
    \/ ValidateAgain
    \/ \E budget \in Budgets : FilterPass(budget)

SpecTurns == InitTurns /\ [][NextTurns]_vars

(***************************************************************************)
(* Properties of the history pipeline.                                     *)
(***************************************************************************)
\* the ids of all tool_use blocks of a turn, in order
AllToolUseIds(msg) ==
    LET used == SelectSeq(msg.blocks, LAMBDA b : b.type = "tool_use")
    IN  [k \in 1..Len(used) |-> used[k].id]

\* Invariant I1 on a turn sequence: every assistant turn with tool_use ids c1..cn
\* is immediately followed by a user turn made of exactly the tool_result blocks
\* for c1..cn, in that order
PairingInvariant(seq) ==
    \A i \in 1..Len(seq) :
        HasToolUse(seq[i]) =>
            /\ i + 1 <= Len(seq)
            /\ seq[i + 1].role = "user"
            /\ seq[i + 1].isList
            /\ \A k \in 1..Len(seq[i + 1].blocks) : seq[i + 1].blocks[k].type = "tool_result"
            /\ [k \in 1..Len(seq[i + 1].blocks) |-> seq[i + 1].blocks[k].tool_use_id]
                   = AllToolUseIds(seq[i])

Placeholders == {SyntheticBuilt, SyntheticValidated}

\* C1: in the sequence returned by build_conversation_history_with_tools every
\* assistant turn whose tool_use ids are c1..cn is immediately followed by a user
\* turn whose tool_result ids are exactly c1..cn, in the same order.
C1_PairingAfterBuild ==
    hpc = "built" => PairingInvariant(claude_messages)

\* C5: a stored row with a non-empty toolCalls list and blank content is not
\* skipped: the output holds its assistant turn (text "Using tools" plus its
\* tool_use blocks) followed by a user turn of results; the single row
\* {outgoing, "", [c1]} yields exactly two turns, the second one placeholder for c1.
C5_BlankToolCallRowKept ==
    hpc = "built" =>
        /\ \A k \in 1..Len(messages) :
               (HasToolCalls(messages[k]) /\ IsBlank(messages[k].content)) =>
                   \E i \in 1..Len(claude_messages) :
                       /\ claude_messages[i] = ToolUseTurn(messages[k])
                       /\ i + 1 <= Len(claude_messages)
                       /\ claude_messages[i + 1].role = "user"
                       /\ claude_messages[i + 1].isList
        /\ messages = <<Row("outgoing", "", <<ToolCall("c1", "search")>>, "")>> =>
               /\ Len(claude_messages) = 2
               /\ claude_messages[1] =
                      ListTurn("assistant", <<TextBlock("Using tools"), ToolUseBlock("c1", "search")>>)
               /\ claude_messages[2].role = "user"
               /\ Len(claude_messages[2].blocks) = 1
               /\ claude_messages[2].blocks[1].tool_use_id = "c1"
               /\ claude_messages[2].blocks[1].content \in Placeholders

\* the row log starts with a tool-call row (non-blank content, well-formed calls)
\* followed by result rows with stored content for some, not all, of its ids,
\* each id at most once
PartialResults(rows) ==
    /\ Len(rows) >= 2
    /\ HasToolCalls(rows[1])
    /\ ~IsBlank(rows[1].content)
    /\ WellFormedCalls(rows[1]) = rows[1].tool_calls
    /\ LET j == ScanResults(rows, 2)
           ids == {rows[1].tool_calls[k].id : k \in 1..Len(rows[1].tool_calls)}
           got == {rows[k].tool_result_for : k \in 2..(j - 1)}
       IN  /\ j > 2
           /\ got \subseteq ids
           /\ got # ids
           /\ \A k \in 2..(j - 1) : ~IsBlank(rows[k].content)
           /\ \A k1, k2 \in 2..(j - 1) :
                  rows[k1].tool_result_for = rows[k2].tool_result_for => k1 = k2

\* C6: when a tool-call row is followed by result rows for only some of its ids,
\* the result turn keeps the stored content for every id that has a result row
\* and holds a placeholder only for each id that has none.
C6_RealResultsKept ==
    (hpc = "built" /\ PartialResults(messages)) =>
        /\ Len(claude_messages) >= 2
        /\ LET blocks == claude_messages[2].blocks
               j == ScanResults(messages, 2)
           IN  \A c \in 1..Len(messages[1].tool_calls) :
                   LET id == messages[1].tool_calls[c].id
                       stored == {k \in 2..(j - 1) : messages[k].tool_result_for = id}
                   IN  IF stored # {}
                       THEN \A k \in stored :
                                \E b \in 1..Len(blocks) :
                                    /\ blocks[b].tool_use_id = id
                                    /\ blocks[b].content = messages[k].content
                       ELSE \E b \in 1..Len(blocks) :
                                /\ blocks[b].tool_use_id = id
                                /\ blocks[b].content \in Placeholders

\* C2 as stated: for a non-empty input, filter_messages_by_tokens returns a
\* non-empty sequence, whatever the budget.
C2_NeverEmpty ==
    (hpc = "filtered" /\ claude_messages # <<>>) => filtered_messages # <<>>

\* C2 as amended: the result is empty exactly when the input is empty or its
\* last turn alone exceeds the budget; a last turn that alone exceeds the
\* budget is dropped too.
C2_EmptyIffLastOverBudget ==
    hpc = "filtered" =>
        (filtered_messages = <<>>
            <=> \/ claude_messages = <<>>
                \/ estimate_token_count(<<claude_messages[Len(claude_messages)]>>) > max_tokens)

C2_Witness ==
    /\ hpc = "filtered"
    /\ Len(claude_messages) >= 2
    /\ filtered_messages = <<>>
    /\ max_tokens > 0

\* C7: the output of filter_messages_by_tokens is a suffix of its input, every
\* kept turn identical to the input turn.
C7_OutputIsSuffix ==
    hpc = "filtered" => IsSuffix(filtered_messages, claude_messages)

C7_Witness ==
    /\ hpc = "filtered"
    /\ 0 < Len(filtered_messages)
    /\ Len(filtered_messages) < Len(claude_messages)
    /\ \E k \in 1..Len(claude_messages) : claude_messages[k].isList

\* C8: validate(validate(s)) = validate(s), and a sequence that satisfies the
\* pairing invariant is returned unchanged.
C8_ValidationIdempotent ==
    /\ hpc = "validated_twice" => validated_twice = validated
    /\ (hpc \in {"validated", "validated_twice"} /\ PairingInvariant(claude_messages)) =>
           validated = claude_messages

C8_Witness ==
    /\ hpc = "validated_twice"
    /\ validated # claude_messages
    /\ validated_twice = validated

RECURSIVE StoredResultBlocks(_)
\* the tool_result blocks of the user list turns of seq that are no placeholders
StoredResultBlocks(seq) ==
    IF seq = <<>> THEN <<>>
    ELSE (IF Head(seq).role = "user" /\ Head(seq).isList
          THEN SelectSeq(Head(seq).blocks, LAMBDA b : b.content \notin Placeholders)
          ELSE <<>>)
             \o StoredResultBlocks(Tail(seq))

\* row k is a result row that directly follows a tool-call row that is not
\* skipped: only result rows lie between the two
DirectlyFollowsCall(rows, k) ==
    /\ rows[k].tool_result_for # ""
    /\ \E i \in 1..(k - 1) :
           /\ HasToolCalls(rows[i])
           /\ ~IsBlank(rows[i].content)
           /\ rows[i].tool_result_for = ""
           /\ \A j \in (i + 1)..k : rows[j].tool_result_for # "" /\ ~HasToolCalls(rows[j])

RECURSIVE AttachedBlocks(_, _)
\* one block per result row that directly follows a tool-call row, in row order
AttachedBlocks(rows, k) ==
    IF k > Len(rows) THEN <<>>
    ELSE (IF DirectlyFollowsCall(rows, k)
          THEN <<ToolResultBlock(rows[k].tool_result_for, rows[k].content)>>
          ELSE <<>>)
             \o AttachedBlocks(rows, k + 1)

RECURSIVE IsSubsequence(_, _)
IsSubsequence(a, b) ==
    IF a = <<>> THEN TRUE
    ELSE IF b = <<>> THEN FALSE
    ELSE IF Head(a) = Head(b) THEN IsSubsequence(Tail(a), Tail(b))
    ELSE IsSubsequence(a, Tail(b))

\* C22: in the output of build_conversation_history_with_tools a user turn of
\* tool_result blocks occurs only immediately after the assistant turn emitted
\* for a tool-call row; a result row that does not directly follow a tool-call
\* row produces no block, and every result row contributes at most one block.
C22_ResultsOnlyBehindCalls ==
    hpc = "built" =>
        /\ \A i \in 1..Len(claude_messages) :
               (claude_messages[i].role = "user" /\ claude_messages[i].isList) =>
                   /\ i > 1
                   /\ \E k \in 1..Len(messages) :
                          /\ HasToolCalls(messages[k])
                          /\ claude_messages[i - 1] = ToolUseTurn(messages[k])
                   /\ \A b \in 1..Len(claude_messages[i].blocks) :
                          claude_messages[i].blocks[b].type = "tool_result"
        /\ IsSubsequence(StoredResultBlocks(claude_messages), AttachedBlocks(messages, 1))

C22_Witness ==
    /\ hpc = "built"
    /\ Len(messages) = 3
    /\ HasToolCalls(messages[1])
    /\ messages[2] = Row("incoming", "hi", <<>>, "")
    /\ messages[3] = Row("incoming", "r1", <<>>, "c1")
    /\ Len(claude_messages) = 3
    /\ claude_messages[2].role = "user"
    /\ claude_messages[2].isList

\* the rows with non-blank content, no tool calls and no tool_result_for
PlainRows(rows) ==
    SelectSeq(rows, LAMBDA r : ~IsBlank(r.content) /\ ~HasToolCalls(r) /\ r.tool_result_for = "")

\* C25: every row with non-blank content, no toolCalls and no toolResultFor
\* yields exactly one turn of build_conversation_history_with_tools, role user
\* if incoming and assistant otherwise, with the row's content; these turns
\* keep the order of their rows; one incoming row yields exactly one user turn.
C25_PlainRowsOneToOne ==
    hpc = "built" =>
        LET plain == PlainRows(messages)
        IN  /\ SelectSeq(claude_messages, LAMBDA t : ~t.isList)
                   = [k \in 1..Len(plain) |->
                         TextTurn(IF plain[k].direction = "incoming" THEN "user" ELSE "assistant",
                                  plain[k].content)]
            /\ messages = <<Row("incoming", "hi", <<>>, "")>> =>
                   claude_messages = <<TextTurn("user", "hi")>>

C25_Witness ==
    /\ hpc = "built"
    /\ Len(messages) = 3
    /\ messages[1] = Row("incoming", "hi", <<>>, "")
    /\ HasToolCalls(messages[2])
    /\ messages[3] = Row("outgoing", "ok", <<>>, "")
    /\ Len(claude_messages) = 4
    /\ claude_messages[4] = TextTurn("assistant", "ok")

\* a user turn whose blocks are all placeholder tool_result blocks
IsAllPlaceholder(t) ==
    /\ t.role = "user"
    /\ t.isList
    /\ \A b \in 1..Len(t.blocks) :
           t.blocks[b].type = "tool_result" /\ t.blocks[b].content \in Placeholders

RECURSIVE OnlyInserted(_, _, _)
\* out is inp with all-placeholder user turns inserted, each right behind an
\* assistant turn that holds a tool_use block
OnlyInserted(inp, out, mayInsert) ==
    IF out = <<>> THEN inp = <<>>
    ELSE \/ /\ inp # <<>>
            /\ Head(out) = Head(inp)
            /\ OnlyInserted(Tail(inp), Tail(out), HasToolUse(Head(inp)))
         \/ /\ mayInsert
            /\ IsAllPlaceholder(Head(out))
            /\ OnlyInserted(inp, Tail(out), FALSE)

\* C23: the output of validate_tool_use_results holds every input turn,
\* unmodified and in the original order, plus synthetic all-placeholder user
\* turns each placed right after an assistant turn with tool_use blocks; no
\* input turn is removed or replaced.
C23_ValidationOnlyInserts ==
    hpc \in {"validated", "validated_twice"} =>
        OnlyInserted(claude_messages, validated, FALSE)

\* the last n turns of s
Suffix(s, n) == SubSeq(s, Len(s) - n + 1, Len(s))

\* C30: filter_messages_by_tokens returns the longest suffix of its input
\* whose estimate is at most max_tokens: when the output is shorter than the
\* input the suffix one turn longer is above the budget, the output is within
\* the budget whenever some suffix is, and the same input and budget give the
\* same output.
C30_LongestSuffixWithinBudget ==
    hpc = "filtered" =>
        LET n == Len(filtered_messages)
            m == Len(claude_messages)
        IN  /\ n <= m
            /\ filtered_messages = Suffix(claude_messages, n)
            /\ n < m => estimate_token_count(Suffix(claude_messages, n + 1)) > max_tokens
            /\ (\E k \in 0..m : estimate_token_count(Suffix(claude_messages, k)) <= max_tokens)
                   => estimate_token_count(filtered_messages) <= max_tokens
            /\ \A k \in 0..m :
                   estimate_token_count(Suffix(claude_messages, k)) <= max_tokens => k <= n
            /\ filtered_messages = filter_messages_by_tokens(claude_messages, max_tokens)

C30_Witness ==
    /\ hpc = "filtered"
    /\ Len(claude_messages) = 3
    /\ Len(filtered_messages) = 2
    /\ estimate_token_count(filtered_messages) = max_tokens

(***************************************************************************)
(* The MCP clients: MCPStreamableClient (connect with the bounded retry    *)
(* loop, call_tool, close), MCPClient (connect, call_tool, close) and      *)
(* HTTPMCPTools (initialize, _call_tool).                                  *)
(***************************************************************************)
ClientKinds == {"MCPStreamableClient", "MCPClient", "HTTPMCPTools"}

\* what one _send_request call may meet: a result, an exception of the HTTP
\* layer (connection refused, connect timeout, read timeout), a status other
\* than 200, a JSON-RPC error body, or a body that cannot be decoded
RequestOutcomes ==
    {"ok", "ConnectError", "ConnectTimeout", "ReadTimeout", "status", "error_body",
     "undecodable"}

\* what one _send_notification call may meet: any status is accepted
NotificationOutcomes == {"ok", "ConnectError", "ConnectTimeout", "ReadTimeout"}

\* the outcomes that come with a response of status 200, whose headers are read
Answered200 == {"ok", "error_body", "undecodable"}

\* the outcomes that come with a response at all
Answered == Answered200 \cup {"status"}

\* the session header a response may carry
SessionHeaders ==
    { [name |-> "", value |-> ""],
      [name |-> "x-mcp-session-id", value |-> "s1"],
      [name |-> "x-mcp-session-id", value |-> "s2"],
      [name |-> "mcp-session-id", value |-> "s1"] }

\* the catalogues tools/list may return
Catalogues == {<<>>, <<"octo_search">>}

\* the catalogues the provider may return to A2AMessageProcessor.initialize:
\* those, one that names a tool twice, and one that holds the name of a
\* locally registered handler
ProcessorCatalogues ==
    Catalogues \cup {<<"octo_search", "octo_search">>, <<"octo_search", "sms_send">>}

\* if 'x-mcp-session-id' in response.headers: self.session_id = ...
SessionAfter(current, out, hdr) ==
    IF out \in Answered200 /\ hdr.name = "x-mcp-session-id" THEN hdr.value
    ELSE current

\* the session id a response carried in a header, under either name, whether
\* or not the client read it
ObservedAfter(current, out, hdr) ==
    IF out \in Answered /\ hdr.name # "" THEN hdr.value ELSE current

\* one message put on the wire: its method, the x-mcp-session-id header it
\* carried ("" for none), and the session id responses had carried until then
Sent(method, carried, seen) ==
    [method |-> method, session |-> carried, expected |-> seen]

\* every exception is retried (a bare "except Exception" around the retry)
IsConnectionLevel_Any(kind) == TRUE

\* except (httpx.ConnectError, httpx.ConnectTimeout)
IsConnectionLevel(kind) == kind \in {"ConnectError", "ConnectTimeout"}

\* the retry test off by one: if attempt < retry_count
ShouldRetry_Always(a, n) == a < n

\* if attempt < retry_count - 1
ShouldRetry(a, n) == a < n - 1

Failure(step, kind) == [step |-> step, kind |-> kind]

\* tools/list is requested right after initialize: the notification is left out
AfterStep_NoNotification(step) ==
    CASE step = "initialize" -> "tools/list"
      [] step = "initialized" -> "tools/list"
      [] step = "tools/list" -> "returned"

\* the statement that follows a step of the try block that returned
AfterStep(step) ==
    CASE step = "initialize" -> "initialized"
      [] step = "initialized" -> "tools/list"
      [] step = "tools/list" -> "returned"

\* one step of the running attempt, and whether it returned
Step(method, out) == [method |-> method, ok |-> out = "ok"]

\* the two except clauses of connect, for a failure of the running attempt
HandleFailure(step, kind) ==
    /\ failures' = Append(failures, Failure(step, kind))
    /\ IF IsConnectionLevel(kind)
       THEN IF ShouldRetry(attempt, retry_count)
            THEN /\ cpc' = "sleep"
                 /\ UNCHANGED <<connected, conn_outcome>>
            ELSE /\ connected' = FALSE
                 /\ conn_outcome' = "ConnectionError"
                 /\ cpc' = "raised"
       ELSE /\ connected' = FALSE
            /\ conn_outcome' = "Exception"
            /\ cpc' = "raised"

\* a step of the running attempt returned: the next statement, and connected
\* set once refresh_tools has returned
HandleSuccess(step) ==
    /\ cpc' = AfterStep(step)
    /\ IF AfterStep(step) = "returned"
       THEN /\ connected' = TRUE
            /\ conn_outcome' = "returned"
       ELSE UNCHANGED <<connected, conn_outcome>>
    /\ UNCHANGED failures

\* the state a constructor leaves: nothing connected, nothing sent
NewClient ==
    /\ connected = FALSE
    /\ session_id = ""
    /\ tools = <<>>
    /\ retry_count = 0
    /\ retry_delay = 0
    /\ attempt = 0
    /\ attempts_made = 0
    /\ sleep_log = <<>>
    /\ failures = <<>>
    /\ conn_outcome = "none"
    /\ http_client = "none"
    /\ observed = ""
    /\ last_sent = Sent("", "", "")
    /\ attempt_log = <<>>
    /\ last_call = [sent |-> 0, reply |-> "none"]
    /\ closed_states = <<>>

InitConnect ==
    /\ HistIdle
    /\ LoopIdle
    /\ ParseIdle
    /\ JobIdle
    /\ client_class = "MCPStreamableClient"
    /\ NewClient
    /\ cpc = "new"

\* connect(retry_count=n, retry_delay=d) is called on a new client; with n = 0
\* the loop body never runs and connect returns
Connect(n, d) ==
    /\ client_class = "MCPStreamableClient"
    /\ cpc = "new"
    /\ retry_count' = n
    /\ retry_delay' = d
    /\ attempt' = 0
    /\ cpc' = IF 0 < n THEN "initialize" ELSE "returned"
    /\ conn_outcome' = IF 0 < n THEN "none" ELSE "returned"
    /\ UNCHANGED <<client_class, connected, session_id, tools, attempts_made, sleep_log,
                   failures, http_client, observed, last_sent, attempt_log, last_call,
                   closed_states>>
    /\ UNCHANGED <<histVars, loopVars, parseVars, jobVars>>

\* an attempt starts: the HTTP client is created and _initialize is awaited
Initialize(out, hdr) ==
    /\ cpc = "initialize"
    /\ attempts_made' = attempts_made + 1
    /\ http_client' = "open"
    /\ last_sent' = Sent("initialize", session_id, observed)
    /\ observed' = ObservedAfter(observed, out, hdr)
    /\ session_id' = SessionAfter(session_id, out, hdr)
    /\ attempt_log' = <<Step("initialize", out)>>
    /\ IF out = "ok"
       THEN HandleSuccess("initialize")
       ELSE HandleFailure("initialize", out)
    /\ UNCHANGED <<client_class, tools, retry_count, retry_delay, attempt, sleep_log,
                   last_call, closed_states>>
    /\ UNCHANGED <<histVars, loopVars, parseVars, jobVars>>

\* _send_initialized is awaited: the response is not read, whatever its status
\* and headers
SendInitialized(out, hdr) ==
    /\ cpc = "initialized"
    /\ last_sent' = Sent("initialized", session_id, observed)
    /\ observed' = ObservedAfter(observed, out, hdr)
    /\ attempt_log' = Append(attempt_log, Step("initialized", out))
    /\ IF out = "ok"
       THEN HandleSuccess("initialized")
       ELSE HandleFailure("initialized", out)
    /\ UNCHANGED <<client_class, session_id, tools, retry_count, retry_delay, attempt,
                   attempts_made, sleep_log, http_client, last_call, closed_states>>
    /\ UNCHANGED <<histVars, loopVars, parseVars, jobVars>>

\* refresh_tools is awaited; on success connected is set and connect returns
RefreshTools(out, hdr, catalogue) ==
    /\ cpc = "tools/list"
    /\ last_sent' = Sent("tools/list", session_id, observed)
    /\ observed' = ObservedAfter(observed, out, hdr)
    /\ session_id' = SessionAfter(session_id, out, hdr)
    /\ attempt_log' = Append(attempt_log, Step("tools/list", out))
    /\ IF out = "ok"
       THEN /\ tools' = catalogue
            /\ HandleSuccess("tools/list")
       ELSE /\ HandleFailure("tools/list", out)
            /\ UNCHANGED tools
    /\ UNCHANGED <<client_class, retry_count, retry_delay, attempt, attempts_made, sleep_log,
                   http_client, last_call, closed_states>>
    /\ UNCHANGED <<histVars, loopVars, parseVars, jobVars>>

\* await asyncio.sleep(retry_delay), then the next iteration of the for loop
Sleep ==
    /\ cpc = "sleep"
    /\ sleep_log' = Append(sleep_log, retry_delay)
    /\ attempt' = attempt + 1
    /\ cpc' = IF attempt + 1 < retry_count THEN "initialize" ELSE "returned"
    /\ conn_outcome' = IF attempt + 1 < retry_count THEN conn_outcome ELSE "returned"
    /\ UNCHANGED <<client_class, connected, session_id, tools, retry_count, retry_delay,
                   attempts_made, failures, http_client, observed, last_sent,
                   attempt_log, last_call, closed_states>>
    /\ UNCHANGED <<histVars, loopVars, parseVars, jobVars>>

NextConnect ==
    \/ \E n \in 0..MaxRetryCount, d \in 1..MaxRetryDelay : Connect(n, d)
    \/ \E out \in RequestOutcomes, hdr \in SessionHeaders : Initialize(out, hdr)
    \/ \E out \in NotificationOutcomes, hdr \in SessionHeaders : SendInitialized(out, hdr)
    \/ \E out \in RequestOutcomes, hdr \in SessionHeaders, catalogue \in Catalogues :
           RefreshTools(out, hdr, catalogue)
    \/ Sleep

SpecConnect == InitConnect /\ [][NextConnect]_vars

(***************************************************************************)
(* SpecClient: the life of one client object of any of the three classes:  *)
(* construction, connect (or initialize), then call_tool and close in any  *)
(* order.                                                                  *)
(***************************************************************************)
\* the positions at which no connect is running
Quiescent == {"new", "returned", "raised", "closed"}

\* the outcomes on which HTTPMCPTools.initialize and _call_tool raise; a
\* JSON-RPC error body is decoded like any other body
Raising == RequestOutcomes \ {"ok", "error_body"}

\* HTTPMCPTools.initialize: x-mcp-session-id, elif mcp-session-id, read from
\* the initialize response once its status is known to be 200
SessionCaptured(current, out, hdr) ==
    IF out \in Answered200 /\ hdr.name # "" THEN hdr.value ELSE current

\* call_tool makes no test of self.connected before it sends the request
RequestsSent_Unconnected(k, conn, out) == 1

\* call_tool sends its request again when the first one failed
RequestsSent_Resend(k, conn, out) ==
    IF k # "HTTPMCPTools" /\ ~conn THEN 0
    ELSE IF out = "ok" THEN 1 ELSE 2

\* the HTTP requests one call_tool invocation sends: none on a client that is
\* not connected (HTTPMCPTools makes no such test), else the single POST
RequestsSent(k, conn, out) ==
    IF k # "HTTPMCPTools" /\ ~conn THEN 0 ELSE 1

\* call_tool lets the exception of a failed request escape
CallToolReply_Raises(k, conn, out) ==
    IF k # "HTTPMCPTools" /\ ~conn THEN "error"
    ELSE IF out = "ok" THEN "result" ELSE "raised"

\* how one call_tool invocation ends: a {"result": ...} map, an {"error": ...}
\* map, or (HTTPMCPTools._call_tool only) an exception
CallToolReply(k, conn, out) ==
    IF k = "HTTPMCPTools"
    THEN IF out = "ok" THEN "result" ELSE "raised"
    ELSE IF ~conn THEN "error"
         ELSE IF out = "ok" THEN "result" ELSE "error"

InitClient ==
    /\ HistIdle
    /\ LoopIdle
    /\ ParseIdle
    /\ JobIdle
    /\ client_class \in ClientKinds
    /\ NewClient
    /\ cpc = "new"

\* self.connected = True whatever the initialize request met
MCPClientConnected_Always(init_out) == TRUE

\* MCPClient.connect: self.connected = True iff the initialize request
\* returned a result
MCPClientConnected(init_out) == init_out = "ok"

\* MCPClient.refresh_tools on a new client: self.tools is replaced only when
\* the client is connected and tools/list returned a result
MCPClientTools(init_out, list_out, catalogue) ==
    IF MCPClientConnected(init_out) /\ list_out = "ok" THEN catalogue ELSE <<>>

\* MCPClient.connect: the initialize request, then refresh_tools; every
\* exception is swallowed
MCPClientConnect(init_out, list_out, catalogue) ==
    /\ client_class = "MCPClient"
    /\ cpc = "new"
    /\ connected' = MCPClientConnected(init_out)
    /\ tools' = MCPClientTools(init_out, list_out, catalogue)
    /\ last_sent' = Sent(IF init_out = "ok" THEN "tools/list" ELSE "initialize", "", observed)
    /\ conn_outcome' = "returned"
    /\ cpc' = "returned"
    /\ UNCHANGED <<client_class, session_id, retry_count, retry_delay, attempt, attempts_made,
                   sleep_log, failures, http_client, observed, attempt_log, last_call,
                   closed_states>>
    /\ UNCHANGED <<histVars, loopVars, parseVars, jobVars>>

\* HTTPMCPTools.initialize raises when a request meets an exception, a status
\* other than 200 or a body it cannot parse
ToolsInitializeRaises(init_out, list_out) ==
    init_out \in Raising \/ list_out \in Raising

\* self.functions after HTTPMCPTools.initialize: cleared first, filled only
\* from a tools/list result
ToolsFunctions(init_out, list_out, catalogue) ==
    IF ~ToolsInitializeRaises(init_out, list_out) /\ list_out = "ok" THEN catalogue
    ELSE <<>>

\* HTTPMCPTools.initialize: the initialize request, the capture of the session
\* id, the tools/list request, the registration of the functions
ToolsInitialize(init_out, hdr, list_out, catalogue) ==
    /\ client_class = "HTTPMCPTools"
    /\ cpc = "new"
    /\ session_id' = SessionCaptured(session_id, init_out, hdr)
    /\ observed' = ObservedAfter(observed, init_out, hdr)
    /\ IF init_out \in Raising
       THEN /\ last_sent' = Sent("initialize", "", observed)
            /\ connected' = FALSE
            /\ tools' = <<>>
            /\ conn_outcome' = "Exception"
            /\ cpc' = "raised"
       ELSE /\ last_sent' = Sent("tools/list", session_id', observed')
            /\ IF list_out \in Raising
               THEN /\ connected' = FALSE
                    /\ tools' = <<>>
                    /\ conn_outcome' = "Exception"
                    /\ cpc' = "raised"
               ELSE /\ connected' = TRUE
                    /\ tools' = ToolsFunctions(init_out, list_out, catalogue)
                    /\ conn_outcome' = "returned"
                    /\ cpc' = "returned"
    /\ UNCHANGED <<client_class, retry_count, retry_delay, attempt, attempts_made, sleep_log,
                   failures, http_client, attempt_log, last_call, closed_states>>
    /\ UNCHANGED <<histVars, loopVars, parseVars, jobVars>>

\* call_tool (MCPStreamableClient, MCPClient) or _call_tool (HTTPMCPTools)
CallTool(out, hdr) ==
    /\ cpc \in Quiescent
    /\ client_class = "HTTPMCPTools" => cpc = "returned"
    /\ last_call' = [sent |-> RequestsSent(client_class, connected, out),
                     reply |-> CallToolReply(client_class, connected, out)]
    /\ IF RequestsSent(client_class, connected, out) = 0
       THEN UNCHANGED <<last_sent, observed, session_id>>
       ELSE /\ last_sent' = Sent("tools/call", session_id, observed)
            /\ observed' = ObservedAfter(observed, out, hdr)
            /\ session_id' = IF client_class = "MCPStreamableClient"
                             THEN SessionAfter(session_id, out, hdr)
                             ELSE session_id
    /\ UNCHANGED <<client_class, connected, tools, retry_count, retry_delay, attempt,
                   attempts_made, sleep_log, failures, conn_outcome, cpc, http_client,
                   attempt_log, closed_states>>
    /\ UNCHANGED <<histVars, loopVars, parseVars, jobVars>>

\* await self._http_client.aclose() is reached and raises: the except clause
\* of MCPStreamableClient.close logs it, the two assignments are skipped
CloseInterrupted(k, http, aclose_ok) ==
    k = "MCPStreamableClient" /\ http # "none" /\ ~aclose_ok

\* close(): MCPStreamableClient closes its HTTP client if it has one, then
\* both classes reset connected and the session; nothing is raised
Close(aclose_ok) ==
    /\ client_class \in {"MCPStreamableClient", "MCPClient"}
    /\ cpc \in Quiescent
    /\ Len(closed_states) < MaxCloses
    /\ IF CloseInterrupted(client_class, http_client, aclose_ok)
       THEN UNCHANGED <<http_client, connected, session_id>>
       ELSE /\ http_client' = IF http_client = "none" THEN "none" ELSE "closed"
            /\ connected' = FALSE
            /\ session_id' = ""
    /\ observed' = ""
    /\ cpc' = "closed"
    /\ closed_states' = Append(closed_states,
                               [connected |-> connected', session_id |-> session_id',
                                raised |-> FALSE])
    /\ UNCHANGED <<client_class, tools, retry_count, retry_delay, attempt, attempts_made,
                   sleep_log, failures, conn_outcome, last_sent, attempt_log, last_call>>
    /\ UNCHANGED <<histVars, loopVars, parseVars, jobVars>>

\* retry_count values of a connect that close and call_tool follow; the delay
\* between attempts does not matter to them and is 1
LifeRetryCounts == {0, 1, 2}

NextClient ==
    \/ \E n \in LifeRetryCounts : Connect(n, 1)
    \/ \E out \in RequestOutcomes, hdr \in SessionHeaders : Initialize(out, hdr)
    \/ \E out \in NotificationOutcomes, hdr \in SessionHeaders : SendInitialized(out, hdr)
    \/ \E out \in RequestOutcomes, hdr \in SessionHeaders, catalogue \in Catalogues :
           RefreshTools(out, hdr, catalogue)
    \/ Sleep
    \/ \E init_out, list_out \in RequestOutcomes, catalogue \in Catalogues :
           MCPClientConnect(init_out, list_out, catalogue)
    \/ \E init_out, list_out \in RequestOutcomes, hdr \in SessionHeaders,
          catalogue \in Catalogues :
           ToolsInitialize(init_out, hdr, list_out, catalogue)
    \/ \E out \in RequestOutcomes, hdr \in SessionHeaders : CallTool(out, hdr)
    \/ \E aclose_ok \in BOOLEAN : Close(aclose_ok)

SpecClient == InitClient /\ [][NextClient]_vars

(***************************************************************************)
(* A2AMessageProcessor: initialize, then process_message_with_claude (the  *)
(* bounded tool loop) and the end of A2AWorker.process_message; and        *)
(* SMSAgent: initialize, then process_message.                             *)
(***************************************************************************)
\* MAX_TOOL_ITERATIONS = 5
MAX_TOOL_ITERATIONS == 5

Agents == {"A2AMessageProcessor", "SMSAgent"}

\* self.local_tools, the four handlers registered by __init__
local_tools == {"calendar_display", "dynamic_form", "sms_send", "help_request"}

\* the tool names the model may ask for alone: a local handler (the one that
\* reports a failed insert) and a provider tool, registered or not
RequestedNames == {"dynamic_form", "octo_search"}

\* "Please provide a final response ... No more tools are available."
FinalInstruction ==
    "Please provide a final response based on the tool results you've gathered. No more tools are available."

\* the pairs of names asked for in one response: the two names that have a
\* handler in either order, and the provider tool before a name known to
\* neither the processor nor the provider
RequestedPairs ==
    {<<"dynamic_form", "octo_search">>, <<"octo_search", "dynamic_form">>,
     <<"octo_search", "ghost">>}

\* the model's answers: text alone, one tool_use, or text and two tool_use
\* blocks with different names
TextResponses == {<<TextBlock("answer")>>}

ToolResponses ==
    {<<ToolUseBlock("t1", n)>> : n \in RequestedNames}
    \cup {<<TextBlock("thinking"), ToolUseBlock("t1", pair[1]), ToolUseBlock("t2", pair[2])>> :
             pair \in RequestedPairs}

Responses == TextResponses \cup ToolResponses

NumToolUses(blocks) == Len(SelectSeq(blocks, LAMBDA b : b.type = "tool_use"))

RECURSIVE ToolUsesIn(_)
\* the tool_use blocks of all assistant list turns of a message list
ToolUsesIn(msgs) ==
    IF msgs = <<>> THEN 0
    ELSE (IF Head(msgs).isList THEN NumToolUses(Head(msgs).blocks) ELSE 0)
             + ToolUsesIn(Tail(msgs))

\* all_tools = list(self.local_tools.keys()) + list(self.mcp_tools.keys()), and
\* claude_tools, one entry per element of all_tools under that element's name:
\* the names of the entries offered to the model, each with its number of entries
claude_tools == SetToBag(local_tools) (+) SetToBag(mcp_tools)

\* has_tool_calls = any(block.type == "tool_use" for block in response.content)
has_tool_calls(blocks) == \E k \in 1..Len(blocks) : blocks[k].type = "tool_use"

RECURSIVE ExtractText(_)
\* for block in content: if block.type == "text": result["text"] += block.text
ExtractText(blocks) ==
    IF blocks = <<>> THEN ""
    ELSE (IF Head(blocks).type = "text" THEN Head(blocks).text ELSE "")
             \o ExtractText(Tail(blocks))

\* the handlers' execute: FormTool and HelpTool return an error message when
\* the insert fails, CalendarTool returns its result without the row id,
\* SMSTool uses no table; the loop records result if result else error
LocalExecute(name, db) ==
    IF name \in {"dynamic_form", "help_request"} /\ ~db THEN "local error"
    ELSE "local result"

\* json.dumps(mcp_result): the {"result": ...} or {"error": ...} map of call_tool
RecordedReply(reply) == IF reply = "result" THEN "mcp result" ELSE "mcp error"

\* elif tool_name in self.mcp_tools and self.mcp_client
ToProvider(block, client, registered) ==
    /\ block.type = "tool_use"
    /\ block.name \notin local_tools
    /\ block.name \in registered
    /\ client

ToLocal(block) == block.type = "tool_use" /\ block.name \in local_tools

\* the tool_result blocks that record an error
ErrorsInBlocks(blocks) ==
    Len(SelectSeq(blocks, LAMBDA b : b.type = "tool_result"
                                         /\ b.content \in {"local error", "mcp error"}))

RECURSIVE ErrorsIn(_)
ErrorsIn(msgs) ==
    IF msgs = <<>> THEN 0
    ELSE (IF Head(msgs).isList THEN ErrorsInBlocks(Head(msgs).blocks) ELSE 0)
             + ErrorsIn(Tail(msgs))

ProviderUses(blocks, client, registered) ==
    Len(SelectSeq(blocks, LAMBDA b : ToProvider(b, client, registered)))

LocalUses(blocks) == Len(SelectSeq(blocks, LAMBDA b : ToLocal(b)))

\* the tool_result blocks one content block of the response contributes
DispatchBlock(block, client, registered, db, reply) ==
    IF block.type # "tool_use" THEN <<>>
    ELSE IF block.name \in local_tools
         THEN <<ToolResultBlock(block.id, LocalExecute(block.name, db))>>
         ELSE IF block.name \in registered /\ client
              THEN <<ToolResultBlock(block.id, RecordedReply(reply))>>
              ELSE <<>>

RECURSIVE ExecuteTools(_, _, _, _, _)
\* tool_results, collected over response.content in order
ExecuteTools(blocks, client, registered, db, reply) ==
    IF blocks = <<>> THEN <<>>
    ELSE DispatchBlock(Head(blocks), client, registered, db, reply)
             \o ExecuteTools(Tail(blocks), client, registered, db, reply)

\* if tool_iterations >= MAX_TOOL_ITERATIONS (after a batch)
IterationLimitReached_Late(n) == n > MAX_TOOL_ITERATIONS

IterationLimitReached(n) == n >= MAX_TOOL_ITERATIONS

\* one anthropic.messages.create call: the tools offered and the messages sent
ModelCall(offered, sent) == [tools |-> offered, messages |-> sent]

\* the error of the response is never looked at
ProcessingFailed_Never(o) == FALSE

\* if a2a_response.error: raise Exception(...)
ProcessingFailed(o) == o = "error"

\* SMSAgent.initialize: the wrapped tools of the client, or [] when
\* _init_mcp_client raised
AgentTools(conn, catalogue) == IF conn = "returned" THEN Range(catalogue) ELSE {}

\* how MCPStreamableClient.connect may end, for its caller
ConnectOutcomes == {"returned", "ConnectionError", "Exception"}

\* the objects as __init__ leaves them: no connection made, no provider tool
\* registered, no run started
InitLoop ==
    /\ HistIdle
    /\ ConnIdle
    /\ ParseIdle
    /\ JobIdle
    /\ agent \in Agents
    /\ mcp_client \in BOOLEAN
    /\ (agent = "SMSAgent" => ~mcp_client)
    /\ mcp_connected = FALSE
    /\ init_result = "none"
    /\ mcp_tools = {}
    /\ llm_messages = <<>>
    /\ tool_iterations = 0
    /\ response = <<>>
    /\ model_calls = <<>>
    /\ batches = 0
    /\ provider_calls = 0
    /\ last_exec = [db |-> "unused", reply |-> "none"]
    /\ model_failed = FALSE
    /\ result_text = ""
    /\ outcome = "none"
    /\ msg_status = "pending"
    /\ reply_stored = FALSE
    /\ a2a_response = <<>>
    /\ lpc = "new"

\* A2AMessageProcessor.initialize: MCPClient.connect when there is a client,
\* then the registration of the client's tools if it is connected
InitializeProcessor(init_out, list_out, catalogue) ==
    /\ agent = "A2AMessageProcessor"
    /\ lpc = "new"
    /\ IF mcp_client
       THEN /\ mcp_connected' = MCPClientConnected(init_out)
            /\ mcp_tools' = IF MCPClientConnected(init_out)
                            THEN Range(MCPClientTools(init_out, list_out, catalogue))
                            ELSE {}
            /\ init_result' = IF init_out = "ok" THEN "connected" ELSE "connect failed"
       ELSE /\ mcp_connected' = FALSE
            /\ mcp_tools' = {}
            /\ init_result' = "no client"
    /\ lpc' = "Ready"
    /\ UNCHANGED <<agent, mcp_client, llm_messages, tool_iterations, response, model_calls,
                   batches, provider_calls, last_exec, model_failed, result_text, outcome,
                   msg_status, reply_stored>>
    /\ UNCHANGED a2a_response
    /\ UNCHANGED <<histVars, connVars, parseVars, jobVars>>

\* SMSAgent.initialize: create_mcp_client (MCPStreamableClient.connect with
\* its defaults) and the wrapping of its tools; on any exception tools = []
SMSAgentInitialize(conn, catalogue) ==
    /\ agent = "SMSAgent"
    /\ lpc = "new"
    /\ mcp_client' = (conn = "returned")
    /\ mcp_connected' = (conn = "returned")
    /\ mcp_tools' = AgentTools(conn, catalogue)
    /\ init_result' = IF conn = "returned" THEN "connected" ELSE "connect failed"
    /\ lpc' = "Ready"
    /\ UNCHANGED <<agent, llm_messages, tool_iterations, response, model_calls, batches,
                   provider_calls, last_exec, model_failed, result_text, outcome,
                   msg_status, reply_stored>>
    /\ UNCHANGED a2a_response
    /\ UNCHANGED <<histVars, connVars, parseVars, jobVars>>

\* A2AWorker.process_message up to the while loop: status "processing", the
\* run called with an empty history, messages holding the current user message
StartRun ==
    /\ agent = "A2AMessageProcessor"
    /\ lpc = "Ready"
    /\ msg_status' = "processing"
    /\ llm_messages' = <<TextTurn("user", "Here's my current message: hi")>>
    /\ lpc' = "Asking"
    /\ UNCHANGED <<agent, mcp_client, mcp_connected, init_result, mcp_tools,
                   tool_iterations, response, model_calls, batches, provider_calls,
                   last_exec, model_failed, result_text, outcome, reply_stored>>
    /\ UNCHANGED a2a_response
    /\ UNCHANGED <<histVars, connVars, parseVars, jobVars>>

\* response = anthropic.messages.create(**request_params), then the test on
\* has_tool_calls: the text is extracted and the loop left, or the counter is
\* incremented and the batch is about to run
AskModel(resp) ==
    /\ lpc = "Asking"
    /\ tool_iterations < MAX_TOOL_ITERATIONS
    /\ ToolUsesIn(llm_messages) + NumToolUses(resp) <= MaxToolUses
    /\ model_calls' = Append(model_calls, ModelCall(claude_tools, llm_messages))
    /\ response' = resp
    /\ IF ~has_tool_calls(resp)
       THEN /\ result_text' = result_text \o ExtractText(resp)
            /\ outcome' = "text"
            /\ lpc' = "Done"
            /\ UNCHANGED tool_iterations
       ELSE /\ tool_iterations' = tool_iterations + 1
            /\ lpc' = "Executing"
            /\ UNCHANGED <<result_text, outcome>>
    /\ UNCHANGED <<agent, mcp_client, mcp_connected, init_result, mcp_tools, llm_messages,
                   batches, provider_calls, last_exec, model_failed, msg_status,
                   reply_stored>>
    /\ UNCHANGED a2a_response
    /\ UNCHANGED <<histVars, connVars, parseVars, jobVars>>

\* the model call raises: the outer except returns the error message
AskModelFails ==
    /\ lpc = "Asking"
    /\ tool_iterations < MAX_TOOL_ITERATIONS
    /\ model_calls' = Append(model_calls, ModelCall(claude_tools, llm_messages))
    /\ model_failed' = TRUE
    /\ outcome' = "error"
    /\ lpc' = "Done"
    /\ UNCHANGED <<agent, mcp_client, mcp_connected, init_result, mcp_tools, llm_messages,
                   tool_iterations, response, batches, provider_calls, last_exec,
                   result_text, msg_status, reply_stored>>
    /\ UNCHANGED a2a_response
    /\ UNCHANGED <<histVars, connVars, parseVars, jobVars>>

\* the for loop over response.content (the handlers meet the database up or
\* down, the provider call meets out), then the two appends to messages, then
\* the test of the iteration limit and of the while condition; an exception
\* leaving a tool would reach the outer except
ExecuteBatch(db, out) ==
    LET reply == CallToolReply("MCPClient", mcp_connected, out)
        nprov == ProviderUses(response, mcp_client, mcp_tools)
        nloc == LocalUses(response)
        results == ExecuteTools(response, mcp_client, mcp_tools, db, reply)
    IN  /\ lpc = "Executing"
        /\ ErrorsIn(llm_messages) + ErrorsInBlocks(results) <= MaxToolFailures
        /\ provider_calls' = provider_calls + nprov * RequestsSent("MCPClient", mcp_connected, out)
        /\ last_exec' = [db |-> IF nloc = 0 THEN "unused" ELSE IF db THEN "up" ELSE "down",
                         reply |-> IF nprov = 0 THEN "none" ELSE reply]
        /\ IF nprov > 0 /\ reply = "raised"
           THEN /\ outcome' = "error"
                /\ lpc' = "Done"
                /\ UNCHANGED <<llm_messages, batches>>
           ELSE /\ llm_messages' = llm_messages \o
                       <<ListTurn("assistant", response),
                         ListTurn("user", results)>>
                /\ batches' = batches + 1
                /\ lpc' = IF IterationLimitReached(tool_iterations) THEN "Final"
                          ELSE IF tool_iterations < MAX_TOOL_ITERATIONS THEN "Asking"
                          ELSE "Done"
                /\ outcome' = IF ~IterationLimitReached(tool_iterations)
                                  /\ ~(tool_iterations < MAX_TOOL_ITERATIONS)
                              THEN "text" ELSE outcome
        /\ UNCHANGED <<agent, mcp_client, mcp_connected, init_result, mcp_tools,
                       tool_iterations, response, model_calls, model_failed, result_text,
                       msg_status, reply_stored>>
        /\ UNCHANGED a2a_response
    /\ UNCHANGED <<histVars, connVars, parseVars, jobVars>>

\* final_response = anthropic.messages.create(**final_params): no tools key,
\* the instruction appended to the messages; the text is extracted and the loop left
FinalCall(resp) ==
    /\ lpc = "Final"
    /\ model_calls' = Append(model_calls,
           ModelCall(EmptyBag, Append(llm_messages, TextTurn("user", FinalInstruction))))
    /\ response' = resp
    /\ result_text' = result_text \o ExtractText(resp)
    /\ outcome' = "text"
    /\ lpc' = "Done"
    /\ UNCHANGED <<agent, mcp_client, mcp_connected, init_result, mcp_tools, llm_messages,
                   tool_iterations, batches, provider_calls, last_exec, model_failed,
                   msg_status, reply_stored>>
    /\ UNCHANGED a2a_response
    /\ UNCHANGED <<histVars, connVars, parseVars, jobVars>>

FinalCallFails ==
    /\ lpc = "Final"
    /\ model_calls' = Append(model_calls,
           ModelCall(EmptyBag, Append(llm_messages, TextTurn("user", FinalInstruction))))
    /\ model_failed' = TRUE
    /\ outcome' = "error"
    /\ lpc' = "Done"
    /\ UNCHANGED <<agent, mcp_client, mcp_connected, init_result, mcp_tools, llm_messages,
                   tool_iterations, response, batches, provider_calls, last_exec,
                   result_text, msg_status, reply_stored>>
    /\ UNCHANGED a2a_response
    /\ UNCHANGED <<histVars, connVars, parseVars, jobVars>>

\* the rest of A2AWorker.process_message: an error response raises and the
\* except block marks the message failed; else the reply row is inserted and
\* the message marked completed (a failed insert raises as well)
StoreOutcome(inserted) ==
    /\ agent = "A2AMessageProcessor"
    /\ lpc = "Done"
    /\ IF ProcessingFailed(outcome) \/ ~inserted
       THEN /\ msg_status' = "failed"
            /\ reply_stored' = FALSE
       ELSE /\ msg_status' = "completed"
            /\ reply_stored' = TRUE
    /\ lpc' = "Stored"
    /\ UNCHANGED <<agent, mcp_client, mcp_connected, init_result, mcp_tools, llm_messages,
                   tool_iterations, response, model_calls, batches, provider_calls,
                   last_exec, model_failed, result_text, outcome>>
    /\ UNCHANGED a2a_response
    /\ UNCHANGED <<histVars, connVars, parseVars, jobVars>>

\* SMSAgent.process_message: self.agent.run hands the tool calls of the model
\* to the tools the agent was built with, each an MCPTool.execute and so one
\* call_tool on the client; the text of the response is returned
SMSAgentProcess(resp, out) ==
    /\ agent = "SMSAgent"
    /\ lpc = "Ready"
    /\ response' = resp
    /\ provider_calls' = provider_calls
           + ProviderUses(resp, mcp_client, mcp_tools)
                 * RequestsSent("MCPStreamableClient", mcp_connected, out)
    /\ result_text' = ExtractText(resp)
    /\ outcome' = "text"
    /\ lpc' = "Done"
    /\ UNCHANGED <<agent, mcp_client, mcp_connected, init_result, mcp_tools, llm_messages,
                   tool_iterations, model_calls, batches, last_exec, model_failed,
                   msg_status, reply_stored>>
    /\ UNCHANGED a2a_response
    /\ UNCHANGED <<histVars, connVars, parseVars, jobVars>>

\* self.agent.run raises: process_message has no handler
SMSAgentProcessFails ==
    /\ agent = "SMSAgent"
    /\ lpc = "Ready"
    /\ outcome' = "error"
    /\ lpc' = "Done"
    /\ UNCHANGED <<agent, mcp_client, mcp_connected, init_result, mcp_tools, llm_messages,
                   tool_iterations, response, model_calls, batches, provider_calls,
                   last_exec, model_failed, result_text, msg_status, reply_stored>>
    /\ UNCHANGED a2a_response
    /\ UNCHANGED <<histVars, connVars, parseVars, jobVars>>

(***************************************************************************)
(* A2AMessageProcessor.handle_a2a_request on the requests that are no      *)
(* message.process (that one is the run above, whose response is outcome). *)
(***************************************************************************)
A2AMethods == {"agent.discover", "tool.execute", "unknown.method"}

\* message.params.get("tool"): a local handler that writes a row, one that
\* writes none, a provider tool, a name nobody registered
A2AToolNames == {"dynamic_form", "sms_send", "octo_search", "ghost"}

\* the requests: params is a map holding "tool", or None
A2ARequests == [method : A2AMethods, has_params : BOOLEAN, tool : A2AToolNames]

\* an A2AMessage returned for the request: its id, result and error
A2AResponse(req, id, result, error) ==
    [to |-> req, raised |-> "no", id |-> id, result |-> result, error |-> error]

\* an exception leaves handle_a2a_request
A2ARaised(req, what) ==
    [to |-> req, raised |-> what, id |-> "absent", result |-> "absent", error |-> "absent"]

\* handle_a2a_request: the agent card; tool.execute, which reads
\* message.params.get (AttributeError when params is None), then runs the
\* local handler (its own answer, under context["request_id"]), or wraps the
\* map of call_tool as result, or answers -32601; any other method -32601
handle_a2a_request(req, client, registered, db, reply) ==
    IF req.method = "agent.discover"
    THEN A2AResponse(req, "request id", "agent card", "absent")
    ELSE IF req.method = "tool.execute"
    THEN IF ~req.has_params
         THEN A2ARaised(req, "AttributeError")
         ELSE IF req.tool \in local_tools
              THEN IF LocalExecute(req.tool, db) = "local error"
                   THEN A2AResponse(req, "request id", "absent", "-32603")
                   ELSE A2AResponse(req, "request id", "local result", "absent")
              ELSE IF req.tool \in registered /\ client
                   THEN A2AResponse(req, "request id", RecordedReply(reply), "absent")
                   ELSE A2AResponse(req, "request id", "absent", "-32601")
    ELSE A2AResponse(req, "request id", "absent", "-32601")

\* one agent.discover, tool.execute or unknown request handled by the
\* initialized processor
HandleA2ARequest(req, db, out) ==
    LET reply == CallToolReply("MCPClient", mcp_connected, out)
        toProvider == /\ req.method = "tool.execute"
                      /\ req.has_params
                      /\ req.tool \notin local_tools
                      /\ req.tool \in mcp_tools
                      /\ mcp_client
    IN  /\ agent = "A2AMessageProcessor"
        /\ lpc = "Ready"
        /\ a2a_response' = handle_a2a_request(req, mcp_client, mcp_tools, db, reply)
        /\ provider_calls' = provider_calls
               + (IF toProvider THEN RequestsSent("MCPClient", mcp_connected, out) ELSE 0)
        /\ lpc' = "Answered"
        /\ UNCHANGED <<agent, mcp_client, mcp_connected, init_result, mcp_tools, llm_messages,
                       tool_iterations, response, model_calls, batches, last_exec,
                       model_failed, result_text, outcome, msg_status, reply_stored>>
        /\ UNCHANGED <<histVars, connVars, parseVars, jobVars>>

NextLoop ==
    \/ \E init_out, list_out \in RequestOutcomes, catalogue \in ProcessorCatalogues :
           InitializeProcessor(init_out, list_out, catalogue)
    \/ \E conn \in ConnectOutcomes, catalogue \in Catalogues :
           SMSAgentInitialize(conn, catalogue)
    \/ StartRun
    \/ \E resp \in Responses : AskModel(resp)
    \/ AskModelFails
    \/ \E db \in BOOLEAN, out \in RequestOutcomes : ExecuteBatch(db, out)
    \/ \E resp \in Responses : FinalCall(resp)
    \/ FinalCallFails
    \/ \E inserted \in BOOLEAN : StoreOutcome(inserted)
    \/ \E resp \in Responses, out \in RequestOutcomes : SMSAgentProcess(resp, out)
    \/ SMSAgentProcessFails
    \/ \E req \in A2ARequests, db \in BOOLEAN, out \in RequestOutcomes :
           HandleA2ARequest(req, db, out)

SpecLoop == InitLoop /\ [][NextLoop]_vars

(***************************************************************************)
(* Properties of the tool loop.                                            *)
(***************************************************************************)
\* C3: the user turn appended by an Executing step holds exactly one
\* tool_result block per tool_use block of the model response, with the same
\* ids in the same order, whatever the requested tool names are.
C3_OneResultPerToolUse ==
    batches > 0 =>
        LET n == Len(llm_messages)
            results == llm_messages[n].blocks
        IN  /\ llm_messages[n].role = "user"
            /\ \A k \in 1..Len(results) : results[k].type = "tool_result"
            /\ [k \in 1..Len(results) |-> results[k].tool_use_id]
                   = AllToolUseIds(llm_messages[n - 1])

\* C4: one run executes at most 5 tool batches and issues at most 6 model
\* calls; once the 5th batch has been executed exactly one further model call
\* is issued, with no tools offered and the instruction that no more tools are
\* available as its last message, and the run ends with that response's text
\* whatever the response holds.
C4_BoundedToolLoop ==
    /\ batches <= 5
    /\ tool_iterations <= 5
    /\ Len(model_calls) <= 6
    /\ \A k \in 1..Len(model_calls) : model_calls[k].tools = EmptyBag => k = 6
    /\ lpc = "Final" => (batches = 5 /\ Len(model_calls) = 5)
    /\ batches = 5 =>
           /\ lpc \in {"Final", "Done", "Stored"}
           /\ lpc \in {"Done", "Stored"} =>
                  /\ Len(model_calls) = 6
                  /\ model_calls[6].tools = EmptyBag
                  /\ model_calls[6].messages =
                         Append(llm_messages, TextTurn("user", FinalInstruction))
                  /\ outcome = "text" => result_text = ExtractText(response)

C4_Witness ==
    /\ lpc = "Done"
    /\ batches = 5
    /\ outcome = "text"
    /\ has_tool_calls(response)
    /\ Len(model_calls) = 6

\* C14: a tool failure never aborts the tool loop: the user turn appended by
\* a batch holds, for every invocation handed to a local handler or to the
\* provider, a tool_result with its id, which is the error payload when the
\* invocation failed; the run is then at a model call again, and it ends
\* with an error response only if a model call failed.
C14_ToolFailureRecorded ==
    agent = "A2AMessageProcessor" =>
        /\ outcome = "error" => model_failed
        /\ lpc \in {"Asking", "Final"} => Len(model_calls) = batches
        /\ lpc \in {"Done", "Stored"} => Len(model_calls) = batches + 1
        /\ batches > 0 =>
               LET n == Len(llm_messages)
                   asked == llm_messages[n - 1].blocks
                   results == llm_messages[n].blocks
                   Recorded(b, payload) ==
                       \E j \in 1..Len(results) :
                           results[j] = ToolResultBlock(b.id, payload)
               IN  \A k \in 1..Len(asked) :
                       /\ ToLocal(asked[k]) =>
                              Recorded(asked[k],
                                       IF last_exec.db = "down" THEN "local error"
                                       ELSE "local result")
                       /\ ToProvider(asked[k], mcp_client, mcp_tools) =>
                              Recorded(asked[k],
                                       IF last_exec.reply = "result" THEN "mcp result"
                                       ELSE "mcp error")

C14_Witness ==
    /\ agent = "A2AMessageProcessor"
    /\ batches = 2
    /\ lpc = "Stored"
    /\ msg_status = "completed"
    /\ llm_messages[3].blocks =
           <<ToolResultBlock("t1", "mcp error"), ToolResultBlock("t2", "local result")>>
    /\ llm_messages[5].blocks = <<ToolResultBlock("t1", "mcp result")>>

\* C15: once a model call of process_message_with_claude has failed, the run
\* has ended with an error outcome and no text, no further model call is
\* issued and no further tool is executed, and process_message marks the
\* message failed and stores no reply.
C15_ModelFailurePropagated ==
    /\ [](model_failed =>
              /\ lpc \in {"Done", "Stored"}
              /\ outcome = "error"
              /\ lpc = "Stored" => (msg_status = "failed" /\ ~reply_stored))
    /\ [][model_failed =>
              /\ model_calls' = model_calls
              /\ llm_messages' = llm_messages
              /\ batches' = batches
              /\ provider_calls' = provider_calls]_vars

C15_Witness ==
    /\ model_failed
    /\ batches > 0
    /\ provider_calls > 0
    /\ lpc = "Stored"
    /\ msg_status = "failed"
    /\ ~reply_stored

\* C16: when the connect made by initialize has failed, initialize has
\* completed, no provider tool is registered or offered to the model, and
\* no message processed afterwards sends a call to the provider.
C16_ConnectFailureDegrades ==
    init_result = "connect failed" =>
        /\ lpc # "new"
        /\ mcp_tools = {}
        /\ provider_calls = 0
        /\ \A k \in 1..Len(model_calls) : BagToSet(model_calls[k].tools) \subseteq local_tools
        /\ batches > 0 =>
               \A j \in 1..Len(llm_messages[Len(llm_messages)].blocks) :
                   llm_messages[Len(llm_messages)].blocks[j].content
                       \in {"local result", "local error"}

C16_Witness ==
    /\ init_result = "connect failed"
    /\ agent = "A2AMessageProcessor"
    /\ lpc = "Stored"
    /\ msg_status = "completed"
    /\ batches > 0
    /\ \E k \in 1..Len(llm_messages) :
           llm_messages[k].isList /\ llm_messages[k].role = "assistant"
               /\ \E j \in 1..Len(llm_messages[k].blocks) :
                      llm_messages[k].blocks[j].type = "tool_use"
                          /\ llm_messages[k].blocks[j].name = "octo_search"

C16_WitnessSMSAgent ==
    /\ init_result = "connect failed"
    /\ agent = "SMSAgent"
    /\ lpc = "Done"
    /\ outcome = "text"

RECURSIVE OtherToolUses(_)
\* the tool_use blocks of a message list whose name is no local handler
OtherToolUses(msgs) ==
    IF msgs = <<>> THEN 0
    ELSE (IF Head(msgs).isList
          THEN Len(SelectSeq(Head(msgs).blocks,
                             LAMBDA b : b.type = "tool_use" /\ b.name \notin local_tools))
          ELSE 0)
             + OtherToolUses(Tail(msgs))

\* C24: a tool_use whose name is a local handler is executed by that handler
\* and never sent to the provider; any other tool_use is dispatched through
\* the MCP client's call_tool; each tool_use block of a response is executed
\* once at most, in the order received.
C24_ToolDispatch ==
    batches > 0 =>
        LET n == Len(llm_messages)
            uses == SelectSeq(llm_messages[n - 1].blocks, LAMBDA b : b.type = "tool_use")
            results == llm_messages[n].blocks
        IN  /\ Len(results) = Len(uses)
            /\ \A k \in 1..Len(uses) :
                   /\ results[k].tool_use_id = uses[k].id
                   /\ results[k].content \in
                          (IF uses[k].name \in local_tools
                           THEN {"local result", "local error"}
                           ELSE {"mcp result", "mcp error"})
            /\ provider_calls <= OtherToolUses(llm_messages)

(***************************************************************************)
(* SpecAgno: AgnoWorker.process_pending_jobs, one _process_job after the   *)
(* other; each job gets a new agent whose tools come from                  *)
(* HTTPMCPTools.initialize.                                                *)
(***************************************************************************)
Jobs == 1..MaxJobs

\* raise Exception("No tools loaded from MCP server!") (tool_count == 0), also
\* what the str() of the other test, "Agent has no MCP tools!", stands for
NoToolsError == "No tools loaded from MCP server!"

InitAgno ==
    /\ HistIdle
    /\ LoopIdle
    /\ ConnIdle
    /\ ParseIdle
    /\ job = 1
    /\ job_status = [j \in Jobs |-> "pending"]
    /\ job_error = [j \in Jobs |-> ""]
    /\ job_reply = [j \in Jobs |-> "none"]
    /\ job_tools = <<>>
    /\ jpc = "pending"

\* except Exception as e: status 'failed', error str(e); the for loop of
\* process_pending_jobs goes on to the next job
FailJob(error) ==
    /\ job_status' = [job_status EXCEPT ![job] = "failed"]
    /\ job_error' = [job_error EXCEPT ![job] = error]
    /\ job_tools' = <<>>
    /\ job' = job + 1
    /\ jpc' = "pending"

\* status 'processing', then the message row is read
StartJob(found) ==
    /\ jpc = "pending"
    /\ job \in Jobs
    /\ IF found
       THEN /\ job_status' = [job_status EXCEPT ![job] = "processing"]
            /\ jpc' = "message"
            /\ UNCHANGED <<job, job_error, job_tools>>
       ELSE FailJob("Message not found")
    /\ UNCHANGED job_reply
    /\ UNCHANGED <<histVars, loopVars, connVars, parseVars>>

\* agent = await self.initialize_agent(profile_id): create_agno_mcp_agent
\* (HTTPMCPTools.initialize, whose exception is raised again), then the test
\* on the number of functions
InitializeAgent(init_out, list_out, catalogue) ==
    /\ jpc = "message"
    /\ IF ToolsInitializeRaises(init_out, list_out)
       THEN FailJob("Failed to initialize MCP tools")
       ELSE IF Len(ToolsFunctions(init_out, list_out, catalogue)) = 0
            THEN FailJob(NoToolsError)
            ELSE /\ job_tools' = ToolsFunctions(init_out, list_out, catalogue)
                 /\ jpc' = "agent"
                 /\ UNCHANGED <<job, job_status, job_error>>
    /\ UNCHANGED job_reply
    /\ UNCHANGED <<histVars, loopVars, connVars, parseVars>>

\* response = await agent.process_message(...): agent.arun returns or raises
AgentProcess(answered) ==
    /\ jpc = "agent"
    /\ IF answered
       THEN /\ jpc' = "responded"
            /\ UNCHANGED <<job, job_status, job_error, job_tools>>
       ELSE FailJob("agent.arun raised")
    /\ UNCHANGED job_reply
    /\ UNCHANGED <<histVars, loopVars, connVars, parseVars>>

\* _send_sms_response: the outgoing row is inserted (a failure is raised
\* again), the SMS is sent (a failure marks the row failed and is swallowed);
\* then the job is marked completed
SendResponse(stored, sent) ==
    /\ jpc = "responded"
    /\ IF stored
       THEN /\ job_status' = [job_status EXCEPT ![job] = "completed"]
            /\ job_reply' = [job_reply EXCEPT ![job] = IF sent THEN "completed" ELSE "failed"]
            /\ job_tools' = <<>>
            /\ job' = job + 1
            /\ jpc' = "pending"
            /\ UNCHANGED job_error
       ELSE /\ FailJob("Failed to store outgoing message")
            /\ UNCHANGED job_reply
    /\ UNCHANGED <<histVars, loopVars, connVars, parseVars>>

NextAgno ==
    \/ \E found \in BOOLEAN : StartJob(found)
    \/ \E init_out, list_out \in RequestOutcomes, catalogue \in Catalogues :
           InitializeAgent(init_out, list_out, catalogue)
    \/ \E answered \in BOOLEAN : AgentProcess(answered)
    \/ \E stored, sent \in BOOLEAN : SendResponse(stored, sent)

SpecAgno == InitAgno /\ [][NextAgno]_vars

\* C17: an empty tool catalogue is valid: no job of AgnoWorker is failed
\* because the provider answered tools/list with zero tools.
C17_EmptyCatalogueValid ==
    \A j \in Jobs : job_status[j] = "failed" => job_error[j] # NoToolsError

(***************************************************************************)
(* Properties of connect.                                                  *)
(***************************************************************************)
AllConnectionLevelFailures ==
    \A k \in 1..Len(failures) : failures[k].kind \in {"ConnectError", "ConnectTimeout"}

\* C9: connect(retry_count = n >= 1) where every attempt fails at connection
\* level makes exactly n attempts, sleeps retry_delay between consecutive
\* attempts (n - 1 sleeps, none after the last), then ends with ConnectionError,
\* connected false, the catalogue empty, and no other exception.
C9_RetryExhaustion ==
    (retry_count >= 1 /\ AllConnectionLevelFailures) =>
        /\ conn_outcome # "Exception"
        /\ attempts_made <= retry_count
        /\ attempts_made \in {Len(sleep_log), Len(sleep_log) + 1}
        /\ cpc = "initialize" => attempts_made = Len(sleep_log)
        /\ \A k \in 1..Len(sleep_log) : sleep_log[k] = retry_delay
        /\ Len(failures) = retry_count =>
               /\ cpc = "raised"
               /\ conn_outcome = "ConnectionError"
               /\ attempts_made = retry_count
               /\ Len(sleep_log) = retry_count - 1
               /\ ~connected
               /\ tools = <<>>
        /\ cpc = "raised" => Len(failures) = retry_count
        /\ cpc = "returned" => connected

C9_Witness ==
    /\ retry_count = 3
    /\ cpc = "raised"
    /\ conn_outcome = "ConnectionError"
    /\ Len(failures) = 3
    /\ failures[2].step = "tools/list"
    /\ Len(sleep_log) = 2

ErrorAnswers == {"status", "error_body"}

\* C10: an initialize or tools/list request answered with a JSON-RPC error body
\* or a status other than 200 ends connect with that attempt: no sleep and no
\* attempt follows, the failure is raised and connected is false.
C10_NoRetryOnErrorAnswer ==
    \A k \in 1..Len(failures) :
        failures[k].kind \in ErrorAnswers =>
            /\ k = Len(failures)
            /\ cpc = "raised"
            /\ conn_outcome = "Exception"
            /\ ~connected
            /\ attempts_made = k
            /\ Len(sleep_log) = k - 1

C10_Witness ==
    /\ Len(failures) = 2
    /\ failures[1].kind = "ConnectError"
    /\ failures[2] = Failure("tools/list", "error_body")
    /\ cpc = "raised"

Timeouts == {"ConnectTimeout", "ReadTimeout"}

\* C26: a timeout met during the handshake, a connect timeout or a read
\* timeout on the initialize or tools/list request, is retried: connect does
\* not end with it unless it occurred in the last of the retry_count attempts.
C26_TimeoutsRetried ==
    \A k \in 1..Len(failures) :
        (failures[k].kind \in Timeouts /\ k < retry_count) =>
            (k < Len(failures) \/ cpc # "raised")

(***************************************************************************)
(* Response parsing: HTTPMCPTools._parse_response and                      *)
(* MCPHTTPClient._parse_response.                                          *)
(* A response text is a sequence of tokens: the SSE field "event: message",*)
(* the prefix "data: ", the line feed, and the pieces of JSON text "1"     *)
(* (a document), "{" and "}" (a document when they follow each other,      *)
(* white space between them or not).                                       *)
(***************************************************************************)
LF == "\n"

Tokens == {"event: message", "data: ", LF, "1", "{", "}"}

\* the Content-Type headers a response may carry ("" for none)
ContentTypes ==
    {"application/json", "application/json; charset=utf-8", "text/event-stream",
     "text/plain", ""}

\* 'application/json' in content_type
IsJsonType(ctype) == ctype \in {"application/json", "application/json; charset=utf-8"}

\* 'text/event-stream' in content_type
IsEventStreamType(ctype) == ctype = "text/event-stream"

Decoded(value) == [raised |-> FALSE, value |-> value]

Raised(error) == [raised |-> TRUE, value |-> error]

\* json.loads: white space around and between the tokens of JSON is skipped;
\* the text must then be exactly one document
json_loads(text) ==
    LET toks == SelectSeq(text, LAMBDA c : c # LF)
    IN  IF toks = <<"1">> THEN Decoded("the number 1")
        ELSE IF toks = <<"{", "}">> THEN Decoded("the empty object")
        ELSE Raised("JSONDecodeError")

RECURSIVE StripLeft(_)
StripLeft(text) ==
    IF text # <<>> /\ Head(text) = LF THEN StripLeft(Tail(text)) ELSE text

RECURSIVE StripRight(_)
StripRight(text) ==
    IF text # <<>> /\ text[Len(text)] = LF
    THEN StripRight(SubSeq(text, 1, Len(text) - 1))
    ELSE text

\* str.strip()
Strip(text) == StripRight(StripLeft(text))

RECURSIVE Split(_)
\* str.split('\n'): the lines between the line feeds, the empty ones included
Split(text) ==
    IF \A k \in 1..Len(text) : text[k] # LF THEN <<text>>
    ELSE LET i == CHOOSE k \in 1..Len(text) :
                      text[k] = LF /\ \A j \in 1..(k - 1) : text[j] # LF
         IN  <<SubSeq(text, 1, i - 1)>> \o Split(SubSeq(text, i + 1, Len(text)))

\* text.startswith('event:')
StartsWithEvent(text) == text # <<>> /\ Head(text) = "event: message"

\* line.startswith('data: ')
StartsWithData(line) == line # <<>> /\ Head(line) = "data: "

\* the prefix is left on the line that is decoded: data_json = line
DataPayload_KeepPrefix(line) == line

\* data_json = line[6:]
DataPayload(line) == Tail(line)

RECURSIVE ScanDataLines(_)
\* for line in lines: if it is a data line, return its payload decoded, or
\* continue when it does not decode; raise once the lines are exhausted
ScanDataLines(lines) ==
    IF lines = <<>> THEN Raised("No valid JSON found in SSE response")
    ELSE IF StartsWithData(Head(lines)) /\ ~json_loads(DataPayload(Head(lines))).raised
         THEN json_loads(DataPayload(Head(lines)))
         ELSE ScanDataLines(Tail(lines))

\* HTTPMCPTools._parse_response
HTTPMCPTools_parse_response(ctype, text) ==
    IF IsJsonType(ctype) THEN json_loads(text)
    ELSE IF IsEventStreamType(ctype) \/ StartsWithEvent(text)
         THEN ScanDataLines(Split(Strip(text)))
         ELSE IF json_loads(text).raised
              THEN Raised("Unable to parse response")
              ELSE json_loads(text)

\* MCPHTTPClient._parse_response, for a response of status 200
MCPHTTPClient_parse_response(ctype, text) ==
    IF StartsWithEvent(text) \/ IsEventStreamType(ctype)
    THEN ScanDataLines(Split(Strip(text)))
    ELSE json_loads(text)

\* the SSE framing of a payload: 'event: message', a data line, a line feed
SSEFrame(payload) == <<"event: message", LF, "data: ">> \o payload \o <<LF>>

\* MCPClient._send_http_request, for a response of status 200: the text is
\* taken as SSE only when it starts with 'event: message\ndata: ', and then
\* split('\ndata: ', 1)[1].strip(), all that follows the prefix, is decoded
MCPClient_send_http_request(text) ==
    IF Len(text) >= 3 /\ SubSeq(text, 1, 3) = <<"event: message", LF, "data: ">>
    THEN json_loads(Strip(SubSeq(text, 4, Len(text))))
    ELSE IF json_loads(text).raised
         THEN Raised("Unexpected response format")
         ELSE json_loads(text)

\* what the parsers make of one response
ParseBoth(ctype, text) ==
    [tools |-> HTTPMCPTools_parse_response(ctype, text),
     client |-> MCPHTTPClient_parse_response(ctype, text),
     a2a |-> MCPClient_send_http_request(text)]

(***************************************************************************)
(* The decoded payload of a response, by the fields the clients test: an   *)
(* object with or without "result", with or without "error", whose "id" is *)
(* the id of the request or another one; or a JSON value that is no object.*)
(***************************************************************************)
ObjectPayloads ==
    [kind : {"object"}, result : {"absent", "r"}, error : {"absent", "e"},
     id : {"request id", "other id"}]

NonObject(k) == [kind |-> k, result |-> "absent", error |-> "absent", id |-> "absent"]

\* null, a number, the empty list
Payloads == ObjectPayloads \cup {NonObject(k) : k \in {"null", "number", "list"}}

\* 'field' in data raises TypeError when data is None or a number
MembershipRaises(p) == p.kind \in {"null", "number"}

Outcome(raised, what, carrying) == [raised |-> raised, what |-> what, carrying |-> carrying]

\* MCPStreamableClient._send_request, the else branch: response.json(), the
\* test for 'error', then response_data.get('result', {})
SendRequestJson(p) ==
    IF MembershipRaises(p) THEN Outcome(TRUE, "TypeError", "nothing")
    ELSE IF p.error # "absent" THEN Outcome(TRUE, "MCP error", p.error)
    ELSE IF p.kind # "object" THEN Outcome(TRUE, "AttributeError", "nothing")
    ELSE IF p.result # "absent" THEN Outcome(FALSE, "result field", p.result)
    ELSE Outcome(FALSE, "empty map", "nothing")

\* MCPStreamableClient._send_request, the text/event-stream branch, on a
\* body whose only data line holds the payload: the test for 'error', the
\* comparison of ids, elif 'result' in response_data; a payload that passes
\* none of them is skipped and the loop ends with an exception
SendRequestSSE(p) ==
    IF MembershipRaises(p) THEN Outcome(TRUE, "TypeError", "nothing")
    ELSE IF p.error # "absent" THEN Outcome(TRUE, "MCP error", p.error)
    ELSE IF p.kind # "object" THEN Outcome(TRUE, "AttributeError", "nothing")
    ELSE IF p.id = "request id"
         THEN IF p.result # "absent" THEN Outcome(FALSE, "result field", p.result)
              ELSE Outcome(FALSE, "empty map", "nothing")
    ELSE IF p.result # "absent" THEN Outcome(FALSE, "result field", p.result)
    ELSE Outcome(TRUE, "No valid response found in SSE stream", "nothing")

\* HTTPMCPTools._call_tool and MCPHTTPClient.call_tool after _parse_response:
\* if "result" in result ... elif "error" in result ... else return result
ToolCallOutcome(p) ==
    IF MembershipRaises(p) THEN Outcome(TRUE, "TypeError", "nothing")
    ELSE IF p.result # "absent" THEN Outcome(FALSE, "result field", p.result)
    ELSE IF p.error # "absent" THEN Outcome(TRUE, "Tool error", p.error)
    ELSE Outcome(FALSE, "decoded body", p.kind)

(***************************************************************************)
(* The tools/call request: where the profile id of the request comes from. *)
(* A profile id is "" when it is None or empty, "absent" when the          *)
(* arguments hold no 'profileId' key.                                      *)
(***************************************************************************)
PinnedClients == {"HTTPMCPTools", "MCPStreamableClient"}

\* self.profile_id: not configured, or the tenant the client was created for
ConfiguredProfiles == {"", "p1"}

\* arguments.get('profileId') as the model supplies it
SuppliedProfiles == {"absent", "", "p1", "p2"}

\* if self.profile_id and 'profileId' not in arguments: arguments['profileId'] = ...
AddIfMissing(configured, supplied) ==
    IF configured # "" /\ supplied = "absent" THEN configured ELSE supplied

\* the profile ids of one request: in params and inside params.arguments
CallRequest(k, configured, supplied, in_params, in_arguments) ==
    [class |-> k, configured |-> configured, supplied |-> supplied,
     params |-> in_params, arguments |-> in_arguments]

\* HTTPMCPTools: the entrypoint adds the instance's id when the key is
\* missing; _call_tool pops the key from the arguments, falls back to the
\* instance's id only when the key was missing, and puts a truthy id in params
HTTPMCPTools_call_tool(configured, supplied) ==
    LET kwargs == AddIfMissing(configured, supplied)
        from_args == kwargs # "absent"
        profile_id == IF from_args THEN kwargs ELSE configured
    IN  CallRequest("HTTPMCPTools", configured, supplied,
                    IF profile_id # "" THEN profile_id ELSE "absent", "absent")

\* MCPStreamableClient.call_tool: the id goes into the arguments when the key
\* is missing; params holds name and arguments only
MCPStreamableClient_call_tool(configured, supplied) ==
    CallRequest("MCPStreamableClient", configured, supplied,
                "absent", AddIfMissing(configured, supplied))

\* the profile ids a request carries, wherever it carries them
CarriedProfiles(req) == {req.params, req.arguments} \ {"absent"}

(***************************************************************************)
(* SpecParse: a response body arrives token by token and is parsed under   *)
(* its Content-Type; the same text is then parsed as the payload of an     *)
(* SSE-framed text/event-stream response; a decoded payload is handed to   *)
(* the callers; a tools/call request is built from the model's arguments.  *)
(***************************************************************************)
InitParse ==
    /\ HistIdle
    /\ LoopIdle
    /\ ConnIdle
    /\ JobIdle
    /\ body = <<>>
    /\ content_type = ""
    /\ parsed = <<>>
    /\ framed = <<>>
    /\ rpc_payload = <<>>
    /\ request_outcome = <<>>
    /\ call_outcome = <<>>
    /\ call_request = <<>>
    /\ ppc = "body"

ReceiveToken(tok) ==
    /\ ppc = "body"
    /\ Len(body) < MaxBodyLen
    /\ body' = Append(body, tok)
    /\ UNCHANGED <<content_type, parsed, framed, rpc_payload, request_outcome, call_outcome, ppc>>
    /\ UNCHANGED call_request
    /\ UNCHANGED <<histVars, loopVars, connVars, jobVars>>

\* result = self._parse_response(response)
ParseResponse(ctype) ==
    /\ ppc = "body"
    /\ content_type' = ctype
    /\ parsed' = ParseBoth(ctype, body)
    /\ ppc' = "parsed"
    /\ UNCHANGED <<body, framed, rpc_payload, request_outcome, call_outcome>>
    /\ UNCHANGED call_request
    /\ UNCHANGED <<histVars, loopVars, connVars, jobVars>>

\* the same call on the response that carries the text as an SSE event
ParseFramed ==
    /\ ppc = "parsed"
    /\ framed' = ParseBoth("text/event-stream", SSEFrame(body))
    /\ ppc' = "framed"
    /\ UNCHANGED <<body, content_type, parsed, rpc_payload, request_outcome, call_outcome>>
    /\ UNCHANGED call_request
    /\ UNCHANGED <<histVars, loopVars, connVars, jobVars>>

\* a response of status 200 arrives whose body decodes to payload p
ReceivePayload(p) ==
    /\ ppc = "body"
    /\ body = <<>>
    /\ rpc_payload' = p
    /\ ppc' = "payload"
    /\ UNCHANGED <<body, content_type, parsed, framed, request_outcome, call_outcome>>
    /\ UNCHANGED call_request
    /\ UNCHANGED <<histVars, loopVars, connVars, jobVars>>

\* _send_request on the payload, sent as an application/json body and as the
\* data line of a text/event-stream body
SendRequest ==
    /\ ppc = "payload"
    /\ request_outcome = <<>>
    /\ request_outcome' = [json |-> SendRequestJson(rpc_payload),
                           sse |-> SendRequestSSE(rpc_payload)]
    /\ UNCHANGED <<body, content_type, parsed, framed, rpc_payload, call_outcome, ppc>>
    /\ UNCHANGED call_request
    /\ UNCHANGED <<histVars, loopVars, connVars, jobVars>>

\* _call_tool / call_tool on the payload
CallToolOnPayload ==
    /\ ppc = "payload"
    /\ call_outcome = <<>>
    /\ call_outcome' = ToolCallOutcome(rpc_payload)
    /\ UNCHANGED <<body, content_type, parsed, framed, rpc_payload, request_outcome, ppc>>
    /\ UNCHANGED call_request
    /\ UNCHANGED <<histVars, loopVars, connVars, jobVars>>

\* the model calls a tool of a client created for the profile configured,
\* with arguments that hold the profile id supplied
BuildToolCall(k, configured, supplied) ==
    /\ ppc = "body"
    /\ body = <<>>
    /\ call_request' = IF k = "HTTPMCPTools"
                       THEN HTTPMCPTools_call_tool(configured, supplied)
                       ELSE MCPStreamableClient_call_tool(configured, supplied)
    /\ ppc' = "request"
    /\ UNCHANGED <<body, content_type, parsed, framed, rpc_payload, request_outcome,
                   call_outcome>>
    /\ UNCHANGED <<histVars, loopVars, connVars, jobVars>>

NextParse ==
    \/ \E tok \in Tokens : ReceiveToken(tok)
    \/ \E ctype \in ContentTypes : ParseResponse(ctype)
    \/ ParseFramed
    \/ \E p \in Payloads : ReceivePayload(p)
    \/ SendRequest
    \/ CallToolOnPayload
    \/ \E k \in PinnedClients, configured \in ConfiguredProfiles,
          supplied \in SuppliedProfiles :
           BuildToolCall(k, configured, supplied)

SpecParse == InitParse /\ [][NextParse]_vars

(***************************************************************************)
(* Properties of response parsing.                                         *)
(***************************************************************************)
\* C12: for every JSON payload, HTTPMCPTools._parse_response and
\* MCPHTTPClient._parse_response return the same decoded value for an
\* application/json response whose body is the payload and for a
\* text/event-stream response whose body is 'event: message', a 'data: ' line
\* holding the payload, and a line feed.
C12_DualFormatParsing ==
    (/\ ppc = "framed"
     /\ IsJsonType(content_type)
     /\ ~json_loads(body).raised
     /\ \A k \in 1..Len(body) : body[k] # LF) =>
        /\ ~parsed.tools.raised
        /\ ~parsed.client.raised
        /\ framed.tools = parsed.tools
        /\ framed.client = parsed.client
        /\ parsed.tools = json_loads(body)

C12_Witness ==
    /\ ppc = "framed"
    /\ content_type = "application/json"
    /\ body = <<"{", "}">>
    /\ framed.tools = Decoded("the empty object")

\* C13: when the Content-Type is neither application/json nor
\* text/event-stream, HTTPMCPTools._parse_response decodes the whole body as
\* JSON and, if that fails, falls back to the 'data: ' lines of the body; it
\* fails only if neither yields a decodable payload.
C13_JsonFirstThenDataLines ==
    LET described == IF ~json_loads(body).raised THEN json_loads(body)
                     ELSE ScanDataLines(Split(Strip(body)))
    IN  (/\ ppc = "parsed"
         /\ ~IsJsonType(content_type)
         /\ ~IsEventStreamType(content_type)) =>
            /\ parsed.tools.raised = described.raised
            /\ ~parsed.tools.raised => parsed.tools = described

\* C28: for every SSE-framed body whose first 'data: ' line holds valid JSON,
\* MCPClient._send_http_request returns that JSON value, whatever lines
\* precede the data line or follow it.
C28_FirstDataLineDecoded ==
    LET lines == Split(body)
        IsData(k) == StartsWithData(lines[k])
    IN  \A k \in 1..Len(lines) :
            (/\ ppc = "parsed"
             /\ IsData(k)
             /\ \A j \in 1..(k - 1) : ~IsData(j)
             /\ ~json_loads(DataPayload(lines[k])).raised) =>
                parsed.a2a = json_loads(DataPayload(lines[k]))

\* C21: _call_tool / call_tool returns the result field of the decoded body
\* if it has one, else fails with a tool error carrying the error field if it
\* has one, else returns the decoded body unchanged.
C21_CallToolOutcome ==
    call_outcome # <<>> =>
        IF rpc_payload.result # "absent"
        THEN call_outcome = Outcome(FALSE, "result field", rpc_payload.result)
        ELSE IF rpc_payload.error # "absent"
             THEN call_outcome = Outcome(TRUE, "Tool error", rpc_payload.error)
             ELSE call_outcome = Outcome(FALSE, "decoded body", rpc_payload.kind)

\* C27: for every JSON-RPC payload, _send_request ends the same way (the
\* same value returned, or the same failure raised) whether the payload is
\* the application/json body or the single data line of an SSE body.
C27_EncodingsAlike ==
    (request_outcome # <<>> /\ rpc_payload.kind = "object") =>
        request_outcome.json = request_outcome.sse

(***************************************************************************)
(* Properties of the client life cycle.                                    *)
(***************************************************************************)
\* C18: close() never raises, it leaves connected false and the session id
\* absent, and the state after a second close() equals the state after the
\* first, whatever state the client was in.
C18_CloseIdempotent ==
    /\ \A k \in 1..Len(closed_states) :
           /\ ~closed_states[k].raised
           /\ ~closed_states[k].connected
           /\ closed_states[k].session_id = ""
    /\ Len(closed_states) >= 2 => closed_states[2] = closed_states[1]

\* C19: within an attempt of connect the initialize request comes first,
\* then the initialized notification, then tools/list, each sent only after
\* the one before has returned; connected is true exactly when all three
\* steps of the attempt have succeeded, and false when a step has failed.
C19_HandshakeOrder ==
    LET n == Len(attempt_log)
        order == <<"initialize", "initialized", "tools/list">>
    IN  /\ n <= 3
        /\ \A k \in 1..n : attempt_log[k].method = order[k]
        /\ \A k \in 1..(n - 1) : attempt_log[k].ok
        /\ connected <=> (n = 3 /\ attempt_log[3].ok)
        /\ (n > 0 /\ ~attempt_log[n].ok) => ~connected

C19_Witness ==
    /\ connected
    /\ attempts_made = 2
    /\ Len(attempt_log) = 3
    /\ Len(failures) = 1
    /\ failures[1].step = "tools/list"

\* C20: one call_tool invocation sends at most one HTTP request, whatever
\* the request meets; a failed call is reported once and not sent again.
C20_CallToolSendsOnce ==
    /\ last_call.sent <= 1
    /\ last_call.reply \in {"none", "result", "error", "raised"}
    /\ last_call.reply \in {"result", "raised"} => last_call.sent = 1

C20_Witness ==
    /\ client_class = "MCPStreamableClient"
    /\ connected
    /\ last_call = [sent |-> 1, reply |-> "error"]

\* C11: once a response to an MCPStreamableClient has carried a session id in
\* a header, under either name x-mcp-session-id or mcp-session-id, every
\* request and notification the client sends before close() carries that
\* session id as a header.
C11_SessionPropagated ==
    (client_class = "MCPStreamableClient" /\ last_sent.expected # "") =>
        last_sent.session = last_sent.expected

\* C29: call_tool of MCPStreamableClient and of MCPClient never raises: it
\* returns a map with exactly one of the keys 'result' and 'error', whatever
\* the client state and whatever the request meets; on a client that is not
\* connected it returns an error map and sends no request.
C29_CallToolTotal ==
    [][(client_class \in {"MCPStreamableClient", "MCPClient"}
            /\ \E out \in RequestOutcomes, hdr \in SessionHeaders : CallTool(out, hdr)) =>
           /\ last_call'.reply \in {"result", "error"}
           /\ ~connected => last_call' = [sent |-> 0, reply |-> "error"]]_vars

C29_Witness ==
    /\ client_class = "MCPClient"
    /\ cpc = "closed"
    /\ ~connected
    /\ last_call = [sent |-> 0, reply |-> "error"]



(***************************************************************************)
(* Properties of the messages handed to the model.                         *)
(***************************************************************************)
\* C31: the message list of every model call of a run (each call of the loop
\* and the forced final call) satisfies the pairing invariant I1 when the
\* supplied history does: each assistant tool_use turn is immediately followed
\* by a user turn with the results for exactly its ids.
C31_ModelCallsPaired ==
    \A k \in 1..Len(model_calls) : PairingInvariant(model_calls[k].messages)

(***************************************************************************)
(* Properties of the HTTP clients and sessions of MCPStreamableClient.     *)
(***************************************************************************)
\* the httpx.AsyncClient objects the instance has created and not closed:
\* every attempt of connect creates one and stores it in self._http_client,
\* close() closes the one stored there
OpenHTTPClients ==
    IF http_client = "closed" THEN attempts_made - 1 ELSE attempts_made

\* C32: an MCPStreamableClient owns at most one open HTTP client at every
\* moment, and none once close() has returned, the clients created by earlier
\* failed connect attempts included.
C32_NoLeakedHTTPClient ==
    client_class = "MCPStreamableClient" =>
        /\ OpenHTTPClients <= 1
        /\ cpc = "closed" => OpenHTTPClients = 0


\* C37: every connect attempt of MCPStreamableClient starts a fresh session:
\* the initialize request of an attempt carries no session id obtained
\* earlier, and a request sent after close() carries no session id either.
C37_FreshSessionPerAttempt ==
    [][/\ (\E out \in RequestOutcomes, hdr \in SessionHeaders : Initialize(out, hdr)) =>
              last_sent'.session = ""
       /\ (/\ client_class = "MCPStreamableClient"
           /\ cpc = "closed"
           /\ \E out \in RequestOutcomes, hdr \in SessionHeaders : CallTool(out, hdr)
           /\ last_call'.sent > 0) =>
              last_sent'.session = ""]_vars


\* C38: whenever MCPStreamableClient.connect returns normally the client is
\* connected, for every retry_count, 0 included: connect ends either with
\* connected true after a completed handshake or with an error.
C38_ReturnedMeansConnected ==
    (client_class = "MCPStreamableClient" /\ cpc = "returned") =>
        /\ connected
        /\ attempt_log = <<Step("initialize", "ok"), Step("initialized", "ok"),
                           Step("tools/list", "ok")>>


(***************************************************************************)
(* Properties of the returned history.                                     *)
(***************************************************************************)
\* C33: token-budget eviction preserves the pairing invariant I1: when the
\* input of filter_messages_by_tokens satisfies I1, every assistant tool_use
\* turn kept in the output is still immediately followed by its complete
\* result turn.
C33_EvictionKeepsPairing ==
    (hpc = "filtered" /\ PairingInvariant(claude_messages)) =>
        PairingInvariant(filtered_messages)

\* a paired input of which eviction removed a turn and kept others
C33_Witness ==
    /\ hpc = "filtered"
    /\ PairingInvariant(claude_messages)
    /\ \E i \in 1..Len(claude_messages) : HasToolUse(claude_messages[i])
    /\ 0 < Len(filtered_messages)
    /\ Len(filtered_messages) < Len(claude_messages)


\* every tool_result block of seq answers a tool_use block of the turn right
\* before it, and no turn holds two results for one id
ResultsHaveInvocations(seq) ==
    \A i \in 1..Len(seq) :
        LET ids == ResultIds(seq[i])
        IN  /\ \A k \in 1..Len(ids) :
                   /\ i > 1
                   /\ seq[i - 1].role = "assistant"
                   /\ ids[k] \in Range(AllToolUseIds(seq[i - 1]))
            /\ \A k, l \in 1..Len(ids) : ids[k] = ids[l] => k = l

\* C34: in the history returned by get_conversation_history_by_phone (build,
\* validate, token-budget eviction) every tool_result block has the id of a
\* tool_use block of the immediately preceding assistant turn and no turn
\* holds two results with one id; no result is the first turn after eviction.
C34_NoResultWithoutInvocation ==
    hpc = "filtered" => ResultsHaveInvocations(filtered_messages)


\* weak pairing: every assistant turn with tool_use blocks is immediately
\* followed by a user turn that holds a tool_result block for each of its ids
WeakPairing(seq) ==
    \A i \in 1..Len(seq) :
        (seq[i].role = "assistant" /\ HasToolUse(seq[i])) =>
            /\ i < Len(seq)
            /\ seq[i + 1].role = "user"
            /\ seq[i + 1].isList
            /\ Range(AllToolUseIds(seq[i])) \subseteq Range(ResultIds(seq[i + 1]))

\* C40: for every row log the output of build_conversation_history_with_tools
\* satisfies weak pairing: each assistant tool_use turn is immediately followed
\* by a user turn with at least one tool_result per tool_use id, and the
\* output never ends with an assistant tool_use turn.
C40_WeakPairingAfterBuild ==
    hpc \in {"built", "filtered"} => WeakPairing(claude_messages)


\* a call row for c1 and c2 followed by the result row of c1 alone, built
C40_Witness ==
    /\ hpc = "built"
    /\ \E k \in 1..(Len(messages) - 1) :
           /\ Len(messages[k].tool_calls) = 2
           /\ messages[k].content # ""
           /\ messages[k].tool_calls[1].id = "c1"
           /\ messages[k + 1].tool_result_for = "c1"
           /\ (k + 2 <= Len(messages) => messages[k + 2].tool_result_for = "")
    /\ \E i \in 1..Len(claude_messages) : Len(AllToolUseIds(claude_messages[i])) = 2


(***************************************************************************)
(* Properties of the tool catalogue offered to the model.                  *)
(***************************************************************************)
\* C36: the tool catalogue passed to the model never holds two entries with
\* the same name, whatever the provider catalogue holds (a name twice, or the
\* name of a locally registered handler).
C36_UniqueToolNames ==
    \A k \in 1..Len(model_calls) :
        \A name \in BagToSet(model_calls[k].tools) :
            CopiesIn(name, model_calls[k].tools) = 1


(***************************************************************************)
(* Properties of handle_a2a_request.                                       *)
(***************************************************************************)
\* C39: handle_a2a_request answers every request, with or without params:
\* the response has the id of the request and carries exactly one of result
\* and error; an unknown method or an unknown tool yields error code -32601;
\* no exception escapes.
C39_EveryRequestAnswered ==
    /\ lpc = "Answered" =>
           /\ a2a_response.raised = "no"
           /\ a2a_response.id = "request id"
           /\ (a2a_response.result = "absent") # (a2a_response.error = "absent")
           /\ a2a_response.to.method = "unknown.method" => a2a_response.error = "-32601"
           /\ (/\ a2a_response.to.method = "tool.execute"
               /\ a2a_response.to.tool \notin local_tools \cup mcp_tools) =>
                  a2a_response.error = "-32601"
    /\ (agent = "A2AMessageProcessor" /\ lpc \in {"Done", "Stored"}) =>
           outcome \in {"text", "error"}


(***************************************************************************)
(* Properties of the tools/call request.                                   *)
(***************************************************************************)
\* C35: every tools/call request sent by a client configured with profile id
\* P (HTTPMCPTools, MCPStreamableClient) carries P and no other profile id,
\* whatever the arguments of the model hold, a 'profileId' key with another
\* value included.
C35_TenantPinning ==
    (ppc = "request" /\ call_request.configured # "") =>
        CarriedProfiles(call_request) = {call_request.configured}

====
